---- MODULE Spec2Model ----
(***************************************************************************)
(* Composition of the cc-glue-vpc stacks.  Each `new X(this, id, props)`   *)
(* statement of a stack's constructor (and of the private methods it       *)
(* calls) declares one resource node; a property is a literal, a deferred  *)
(* attribute of another node (a cdktf token), or a mix of both (template   *)
(* strings, lists, JSON.stringify payloads).                               *)
(*                                                                         *)
(* Three stack variants exist in the repository:                           *)
(*   "infra" : src/infra/main.ts                                           *)
(*   "nat"   : src/unnamed/part_000  (NAT gateway variant)                 *)
(*   "s3"    : src/main.ts           (S3 VPC endpoint variant)             *)
(***************************************************************************)
EXTENDS Integers, Sequences, FiniteSets, TLC

VARIABLES variant, pc, nodes, outcome, error, clusterZones

vars == <<variant, pc, nodes, outcome, error, clusterZones>>

----------------------------------------------------------------------------
(* Values, properties, nodes, steps                                        *)

\* a literal string
Lit(s) == [lits |-> <<s>>, nums |-> <<>>, refs |-> <<>>]
\* a literal number
Num(n) == [lits |-> <<>>, nums |-> <<n>>, refs |-> <<>>]
\* a CIDR literal 'a.b.c.d/len', kept as its five numbers
Cidr(a, b, c, d, len) == [lits |-> <<>>, nums |-> <<a, b, c, d, len>>, refs |-> <<>>]
\* a deferred attribute of another node (node.attr)
Ref(node, attr) == [lits |-> <<>>, nums |-> <<>>, refs |-> << <<node, attr>> >>]
\* a list of values: the concatenation of its items' parts
List2(v, w) == [lits |-> v.lits \o w.lits, nums |-> v.nums \o w.nums, refs |-> v.refs \o w.refs]
\* a template string `...${x}...${y}...`: literal pieces and the tokens between them
Tpl(pieces, tokens) == [lits |-> pieces, nums |-> <<>>, refs |-> tokens]
\* an empty list
Empty == [lits |-> <<>>, nums |-> <<>>, refs |-> <<>>]

P(key, val) == [key |-> key, val |-> val]
Node(kind, name, props) == [kind |-> kind, name |-> name, props |-> props]
NoNode == Node("", "", {})

\* one statement of a method: a construct declaration, or a method call
New(method, node) == [op |-> "new", method |-> method, node |-> node, callee |-> ""]
Call(method, callee) == [op |-> "call", method |-> method, node |-> NoNode, callee |-> callee]

Range(s) == {s[i] : i \in DOMAIN s}

----------------------------------------------------------------------------
(* Variant "infra": src/infra/main.ts                                      *)

\* faulty variant: the public route covers the VPC range instead of the default destination
infra_publicRoute_vpcOnly(publicSubnetRouteTable, internetGateway) ==
  Node("Route", "public-subnet-route",
    {P("routeTableId", Ref(publicSubnetRouteTable, "id")),
     P("destinationCidrBlock", Cidr(10, 0, 0, 0, 16)),
     P("gatewayId", Ref(internetGateway, "id"))})

\* new Route(this, 'public-subnet-route', ...)
infra_publicRoute(publicSubnetRouteTable, internetGateway) ==
  Node("Route", "public-subnet-route",
    {P("routeTableId", Ref(publicSubnetRouteTable, "id")),
     P("destinationCidrBlock", Cidr(0, 0, 0, 0, 0)),
     P("gatewayId", Ref(internetGateway, "id"))})

\* faulty variant: the private route targets the internet gateway directly
infra_privateRoute_viaGateway(privateSubnetRouteTable, natGateway) ==
  Node("Route", "private-subnet-route",
    {P("routeTableId", Ref(privateSubnetRouteTable, "id")),
     P("destinationCidrBlock", Cidr(0, 0, 0, 0, 0)),
     P("gatewayId", Ref("internet-gateway", "id"))})

\* new Route(this, 'private-subnet-route', ...)
infra_privateRoute(privateSubnetRouteTable, natGateway) ==
  Node("Route", "private-subnet-route",
    {P("routeTableId", Ref(privateSubnetRouteTable, "id")),
     P("destinationCidrBlock", Cidr(0, 0, 0, 0, 0)),
     P("natGatewayId", Ref(natGateway, "id"))})

\* faulty variant: the NAT gateway is placed in the private subnet it serves
infra_natGateway_inPrivate(elasticIp, publicSubnet) ==
  Node("NatGateway", "nat-gateway",
    {P("allocationId", Ref(elasticIp, "id")), P("subnetId", Ref("private-subnet", "id"))})

\* new NatGateway(this, 'nat-gateway', ...)
infra_natGateway(elasticIp, publicSubnet) ==
  Node("NatGateway", "nat-gateway",
    {P("allocationId", Ref(elasticIp, "id")), P("subnetId", Ref(publicSubnet, "id"))})

\* faulty variant: the private subnet takes the upper half of isolated subnet B
infra_privateSubnet_overlapping(vpc) ==
  Node("Subnet", "private-subnet",
    {P("vpcId", Ref(vpc, "id")), P("cidrBlock", Cidr(10, 0, 2, 128, 25)),
     P("availabilityZone", Lit("eu-central-1a")), P("mapPublicIpOnLaunch", Lit("false")),
     P("tags.Name", Lit("private-subnet"))})

\* new Subnet(this, 'private-subnet', ...)
infra_privateSubnet(vpc) ==
  Node("Subnet", "private-subnet",
    {P("vpcId", Ref(vpc, "id")), P("cidrBlock", Cidr(10, 0, 3, 0, 24)),
     P("availabilityZone", Lit("eu-central-1a")), P("mapPublicIpOnLaunch", Lit("false")),
     P("tags.Name", Lit("private-subnet"))})

infra_setupNetworking ==
  LET m == "setupNetworking"
      vpc == Node("Vpc", "vpc",
        {P("cidrBlock", Cidr(10, 0, 0, 0, 16)), P("enableDnsHostnames", Lit("true")),
         P("enableDnsSupport", Lit("true"))})
      isolatedSubnetA == Node("Subnet", "isolated-subnet-a",
        {P("vpcId", Ref("vpc", "id")), P("cidrBlock", Cidr(10, 0, 1, 0, 24)),
         P("availabilityZone", Lit("eu-central-1a")), P("mapPublicIpOnLaunch", Lit("false")),
         P("tags.Name", Lit("isolated-subnet-a"))})
      isolatedSubnetB == Node("Subnet", "isolated-subnet-b",
        {P("vpcId", Ref("vpc", "id")), P("cidrBlock", Cidr(10, 0, 2, 0, 24)),
         P("availabilityZone", Lit("eu-central-1b")), P("mapPublicIpOnLaunch", Lit("false")),
         P("tags.Name", Lit("isolated-subnet-b"))})
      privateSubnet == infra_privateSubnet(vpc.name)
      publicSubnet == Node("Subnet", "public-subnet",
        {P("vpcId", Ref("vpc", "id")), P("cidrBlock", Cidr(10, 0, 4, 0, 24)),
         P("availabilityZone", Lit("eu-central-1a")), P("tags.Name", Lit("public-subnet"))})
      internetGateway == Node("InternetGateway", "internet-gateway",
        {P("vpcId", Ref("vpc", "id"))})
      publicSubnetRouteTable == Node("RouteTable", "public-subnet-route-table",
        {P("vpcId", Ref("vpc", "id"))})
      publicAssociation == Node("RouteTableAssociation", "public-subnet-route-table-association",
        {P("routeTableId", Ref(publicSubnetRouteTable.name, "id")),
         P("subnetId", Ref(publicSubnet.name, "id"))})
      publicRoute == infra_publicRoute(publicSubnetRouteTable.name, internetGateway.name)
      elasticIp == Node("Eip", "elastic-ip", {P("vpc", Lit("true"))})
      natGateway == infra_natGateway(elasticIp.name, publicSubnet.name)
      privateSubnetRouteTable == Node("RouteTable", "private-subnet-route-table",
        {P("vpcId", Ref("vpc", "id"))})
      privateAssociation == Node("RouteTableAssociation", "private-subnet-route-table-association",
        {P("routeTableId", Ref(privateSubnetRouteTable.name, "id")),
         P("subnetId", Ref(privateSubnet.name, "id"))})
      privateRoute == infra_privateRoute(privateSubnetRouteTable.name, natGateway.name)
  IN <<New(m, vpc), New(m, isolatedSubnetA), New(m, isolatedSubnetB),
       New(m, privateSubnet), New(m, publicSubnet), New(m, internetGateway),
       New(m, publicSubnetRouteTable), New(m, publicAssociation), New(m, publicRoute),
       New(m, elasticIp), New(m, natGateway), New(m, privateSubnetRouteTable),
       New(m, privateAssociation), New(m, privateRoute)>>

\* what setupNetworking returns: vpc.id and the subnet constructs
infra_setupNetworking_ret ==
  [vpcId |-> Ref("vpc", "id"), isolatedSubnetA |-> "isolated-subnet-a",
   isolatedSubnetB |-> "isolated-subnet-b", privateSubnet |-> "private-subnet",
   publicSubnet |-> "public-subnet"]

\* faulty variant: the group takes its ingress rule inline by the id of the rule node
infra_rdsSecurityGroup_cyclic(vpcId) ==
  Node("SecurityGroup", "rds-security-group",
    {P("name", Lit("rds-security-group")),
     P("description", Lit("Security group for RDS database")), P("vpcId", vpcId),
     P("ingress", Ref("rds-security-group-ingress", "id"))})

\* new SecurityGroup(this, 'rds-security-group', ...)
infra_rdsSecurityGroup(vpcId) ==
  Node("SecurityGroup", "rds-security-group",
    {P("name", Lit("rds-security-group")),
     P("description", Lit("Security group for RDS database")), P("vpcId", vpcId)})

\* faulty variant: the database admits every tcp port from the Glue jobs group
infra_rdsIngressRule_wide(rdsSecurityGroup, glueJobsSecurityGroup) ==
  Node("SecurityGroupRule", "rds-security-group-ingress",
    {P("type", Lit("ingress")), P("securityGroupId", Ref(rdsSecurityGroup, "id")),
     P("description", Lit("Allow Glue jobs to access RDS")),
     P("fromPort", Num(0)), P("toPort", Num(65535)), P("protocol", Lit("tcp")),
     P("sourceSecurityGroupId", Ref(glueJobsSecurityGroup, "id"))})

\* new SecurityGroupRule(this, 'rds-security-group-ingress', ...)
infra_rdsIngressRule(rdsSecurityGroup, glueJobsSecurityGroup) ==
  Node("SecurityGroupRule", "rds-security-group-ingress",
    {P("type", Lit("ingress")), P("securityGroupId", Ref(rdsSecurityGroup, "id")),
     P("description", Lit("Allow Glue jobs to access RDS")),
     P("fromPort", Num(5432)), P("toPort", Num(5432)), P("protocol", Lit("tcp")),
     P("sourceSecurityGroupId", Ref(glueJobsSecurityGroup, "id"))})

infra_setupSecurityGroups(vpcId) ==
  LET m == "setupSecurityGroups"
      rdsSecurityGroup == infra_rdsSecurityGroup(vpcId)
      glueJobsSecurityGroup == Node("SecurityGroup", "glue-jobs-security-group",
        {P("name", Lit("glue-jobs-security-group")),
         P("description", Lit("Security group for Glue jobs")), P("vpcId", vpcId)})
      rdsIngress == infra_rdsIngressRule(rdsSecurityGroup.name, glueJobsSecurityGroup.name)
      glueIngress == Node("SecurityGroupRule", "glue-jobs-security-group-ingress",
        {P("type", Lit("ingress")), P("securityGroupId", Ref(glueJobsSecurityGroup.name, "id")),
         P("description", Lit("Allow incoming connections")),
         P("fromPort", Num(0)), P("toPort", Num(65535)), P("protocol", Lit("tcp")),
         P("sourceSecurityGroupId", Ref(glueJobsSecurityGroup.name, "id"))})
      glueEgress == Node("SecurityGroupRule", "glue-jobs-security-group-egress",
        {P("type", Lit("egress")), P("securityGroupId", Ref(glueJobsSecurityGroup.name, "id")),
         P("description", Lit("Allow Glue jobs to access internet")),
         P("fromPort", Num(0)), P("toPort", Num(65535)), P("protocol", Lit("tcp")),
         P("cidrBlocks", Cidr(0, 0, 0, 0, 0))})
  IN <<New(m, rdsSecurityGroup), New(m, glueJobsSecurityGroup), New(m, rdsIngress),
       New(m, glueIngress), New(m, glueEgress)>>

\* what setupSecurityGroups returns: the two security group constructs
infra_setupSecurityGroups_ret ==
  [rdsSecurityGroup |-> "rds-security-group", glueJobsSecurityGroup |-> "glue-jobs-security-group"]

\* what createRDSSecret returns: the secret construct it declared
infra_createRDSSecret_ret(resourceId) == resourceId \o "-secret"

\* faulty variant: the secret's description interpolates the password
infra_createRDSSecret_echo(resourceId, secretName, password, clusterIdentifier, dbName, host, username) ==
  LET m == "createRDSSecret"
      secret == Node("SecretsmanagerSecret", resourceId \o "-secret",
        {P("name", Lit(secretName)),
         P("description", Tpl(<<"RDS user secret for " \o username>>, <<<<password, "result">>>>))})
      version == Node("SecretsmanagerSecretVersion", resourceId \o "-secret-version",
        {P("secretId", Ref(secret.name, "id")),
         P("secretString.dbClusterIdentifier", clusterIdentifier),
         P("secretString.password", Ref(password, "result")),
         P("secretString.dbname", dbName),
         P("secretString.engine", Lit("postgres")),
         P("secretString.port", Num(5432)),
         P("secretString.host", host),
         P("secretString.username", Lit(username))})
  IN <<New(m, secret), New(m, version)>>

infra_createRDSSecret(resourceId, secretName, password, clusterIdentifier, dbName, host, username) ==
  LET m == "createRDSSecret"
      secret == Node("SecretsmanagerSecret", resourceId \o "-secret",
        {P("name", Lit(secretName)), P("description", Lit("RDS user secret for " \o username))})
      version == Node("SecretsmanagerSecretVersion", resourceId \o "-secret-version",
        {P("secretId", Ref(secret.name, "id")),
         P("secretString.dbClusterIdentifier", clusterIdentifier),
         P("secretString.password", Ref(password, "result")),
         P("secretString.dbname", dbName),
         P("secretString.engine", Lit("postgres")),
         P("secretString.port", Num(5432)),
         P("secretString.host", host),
         P("secretString.username", Lit(username))})
  IN <<New(m, secret), New(m, version)>>

\* faulty variant: the subnet group also lists the private subnet
infra_subnetGroup_withPrivate(subnetIds) ==
  Node("DbSubnetGroup", "rds-subnet-group",
    {P("name", Lit("rds-subnet-group")),
     P("subnetIds", List2(subnetIds, Ref("private-subnet", "id")))})

\* new DbSubnetGroup(this, 'rds-subnet-group', ...)
infra_subnetGroup(subnetIds) ==
  Node("DbSubnetGroup", "rds-subnet-group",
    {P("name", Lit("rds-subnet-group")), P("subnetIds", subnetIds)})

infra_setupRds(rdsSecurityGroup, subnetIds) ==
  LET m == "setupRds"
      subnetGroup == infra_subnetGroup(subnetIds)
      masterUsername == "dbadmin"
      masterUserPassword == Node("Password", "rds-master-user-password",
        {P("length", Num(48)), P("special", Lit("false"))})
      dbName == "glue"
      rdsCluster == Node("RdsCluster", "rds-cluster",
        {P("clusterIdentifier", Lit("rds-cluster")), P("engine", Lit("aurora-postgresql")),
         P("engineMode", Lit("provisioned")), P("engineVersion", Lit("15.3")),
         P("databaseName", Lit(dbName)), P("masterUsername", Lit(masterUsername)),
         P("masterPassword", Ref(masterUserPassword.name, "result")),
         P("manageMasterUserPassword", Lit("false")),
         P("vpcSecurityGroupIds", Ref(rdsSecurityGroup, "id")),
         P("dbSubnetGroupName", Ref(subnetGroup.name, "name")),
         P("skipFinalSnapshot", Lit("true")),
         P("serverlessv2ScalingConfiguration.maxCapacity", Lit("1")),
         P("serverlessv2ScalingConfiguration.minCapacity", Lit("0.5"))})
      instance == Node("RdsClusterInstance", "rds-cluster-instance",
        {P("identifier", Lit("rds-cluster-instance")),
         P("clusterIdentifier", Ref(rdsCluster.name, "clusterIdentifier")),
         P("instanceClass", Lit("db.serverless")),
         P("engine", Ref(rdsCluster.name, "engine")),
         P("engineVersion", Ref(rdsCluster.name, "engineVersion"))})
      masterSecret == infra_createRDSSecret("rds-master-secret", "rds-master-secret",
         masterUserPassword.name, Ref(rdsCluster.name, "clusterIdentifier"),
         Ref(rdsCluster.name, "databaseName"), Ref(rdsCluster.name, "endpoint"), "dbadmin")
  IN <<New(m, subnetGroup), New(m, masterUserPassword), New(m, rdsCluster),
       New(m, instance)>> \o masterSecret

\* what setupRds returns: the cluster construct
infra_setupRds_ret == "rds-cluster"

\* what setupSecrets returns: the two secret constructs createRDSSecret returned
infra_setupSecrets_ret ==
  [ormSecret |-> infra_createRDSSecret_ret("orm-secret"),
   jobSecret |-> infra_createRDSSecret_ret("job-secret")]

\* faulty variant: the job secret stores the ORM password
infra_setupSecrets_sharedPassword(clusterIdentifier, host, dbName) ==
  LET m == "setupSecrets"
      ormUsername == "orm"
      ormPassword == Node("Password", "orm-password",
        {P("length", Num(48)), P("special", Lit("false"))})
      ormSecret == infra_createRDSSecret("orm-secret", "orm-secret", ormPassword.name,
         clusterIdentifier, dbName, host, ormUsername)
      jobUsername == "glue"
      jobPassword == Node("Password", "job-password",
        {P("length", Num(48)), P("special", Lit("false"))})
      jobSecret == infra_createRDSSecret("job-secret", "job-secret", ormPassword.name,
         clusterIdentifier, dbName, host, jobUsername)
  IN <<New(m, ormPassword)>> \o ormSecret \o <<New(m, jobPassword)>> \o jobSecret

infra_setupSecrets(clusterIdentifier, host, dbName) ==
  LET m == "setupSecrets"
      ormUsername == "orm"
      ormPassword == Node("Password", "orm-password",
        {P("length", Num(48)), P("special", Lit("false"))})
      ormSecret == infra_createRDSSecret("orm-secret", "orm-secret", ormPassword.name,
         clusterIdentifier, dbName, host, ormUsername)
      jobUsername == "glue"
      jobPassword == Node("Password", "job-password",
        {P("length", Num(48)), P("special", Lit("false"))})
      jobSecret == infra_createRDSSecret("job-secret", "job-secret", jobPassword.name,
         clusterIdentifier, dbName, host, jobUsername)
  IN <<New(m, ormPassword)>> \o ormSecret \o <<New(m, jobPassword)>> \o jobSecret

infra_createGlueJob(glueScriptsBucket, rdsConnection, rdsUserSecret) ==
  LET m == "createGlueJob"
      jobPolicyDocument == Node("DataAwsIamPolicyDocument", "glue-job-policy-document",
        {P("version", Lit("2012-10-17")),
         P("statement.0.sid", Lit("GlueJobAllowS3Access")),
         P("statement.0.effect", Lit("Allow")),
         P("statement.0.actions", List2(Lit("s3:GetObject"), Lit("s3:ListBucket"))),
         P("statement.0.resources",
           List2(Tpl(<<"/*">>, <<<<glueScriptsBucket, "arn">>>>), Ref(glueScriptsBucket, "arn"))),
         P("statement.1.sid", Lit("GlueJobAllowRdsSecretAccess")),
         P("statement.1.effect", Lit("Allow")),
         P("statement.1.actions", Lit("secretsmanager:GetSecretValue")),
         P("statement.1.resources", Ref(rdsUserSecret, "arn"))})
      jobPolicy == Node("IamPolicy", "glue-job-policy",
        {P("name", Lit("glue-job-policy")), P("policy", Ref(jobPolicyDocument.name, "json"))})
      jobRole == Node("IamRole", "glue-job-role",
        {P("name", Lit("glue-job-role")),
         P("assumeRolePolicy.Statement.0.Effect", Lit("Allow")),
         P("assumeRolePolicy.Statement.0.Principal.Service", Lit("glue.amazonaws.com")),
         P("assumeRolePolicy.Statement.0.Action", Lit("sts:AssumeRole")),
         P("managedPolicyArns",
           List2(Ref(jobPolicy.name, "arn"),
                 Lit("arn:aws:iam::aws:policy/service-role/AWSGlueServiceRole")))})
      script == Node("S3Object", "glue_job_script",
        {P("bucket", Ref(glueScriptsBucket, "id")), P("key", Lit("generate_data_to_rds.py")),
         P("source", Lit("../glue_scripts/jobs/generate_data_to_rds.py"))})
      lib == Node("S3Object", "glue_job_lib",
        {P("bucket", Ref(glueScriptsBucket, "id")),
         P("key", Lit("glue_scripts-0.1.0-py3-none-any.whl")),
         P("source", Lit("../glue_scripts/dist/glue_scripts-0.1.0-py3-none-any.whl"))})
      job == Node("GlueJob", "glue-job",
        {P("name", Lit("glue-job")),
         P("command.name", Lit("pythonshell")), P("command.pythonVersion", Lit("3.9")),
         P("command.scriptLocation",
           Tpl(<<"s3://", "/generate_data_to_rds.py">>, <<<<glueScriptsBucket, "id">>>>)),
         P("connections", Ref(rdsConnection, "name")),
         P("glueVersion", Lit("3.0")), P("maxCapacity", Lit("0.0625")),
         P("executionClass", Lit("STANDARD")),
         P("defaultArguments.--enable-metrics", Lit("true")),
         P("defaultArguments.--job-language", Lit("python")),
         P("defaultArguments.library-set", Lit("analytics")),
         P("defaultArguments.--enable-job-insights", Lit("false")),
         P("defaultArguments.--extra-py-files",
           Tpl(<<"s3://", "/glue_scripts-0.1.0-py3-none-any.whl">>, <<<<glueScriptsBucket, "id">>>>)),
         P("defaultArguments.--db_secret", Ref(rdsUserSecret, "name")),
         P("defaultArguments.--target_schema", Lit("public")),
         P("defaultArguments.--target_table", Lit("data")),
         P("roleArn", Ref(jobRole.name, "arn")), P("timeout", Num(60))})
  IN <<New(m, jobPolicyDocument), New(m, jobPolicy), New(m, jobRole),
       New(m, script), New(m, lib), New(m, job)>>

\* the methods class MyStack of src/infra/main.ts defines; the constructor
\* also calls setupDatabase, setupMigration and setupReaderFunction
infra_methods == {"constructor", "setupRds", "setupNetworking", "setupSecurityGroups",
                  "createRDSSecret", "setupSecrets", "createGlueJob"}

infra_constructor ==
  LET m == "constructor"
      aws == Node("AwsProvider", "aws", {P("region", Lit("eu-central-1"))})
      random == Node("RandomProvider", "random", {})
      net == infra_setupNetworking_ret
      sgs == infra_setupSecurityGroups_ret
      glueScriptsBucket == Node("S3Bucket", "glue-bucket",
        {P("bucket", Lit("gluescripts.akasper.codecentric.de"))})
      accessBlock == Node("S3BucketPublicAccessBlock", "glue-bucket-public-access-block",
        {P("bucket", Ref(glueScriptsBucket.name, "bucket")), P("blockPublicAcls", Lit("true")),
         P("blockPublicPolicy", Lit("true")), P("ignorePublicAcls", Lit("true")),
         P("restrictPublicBuckets", Lit("true"))})
      rdsCluster == infra_setupRds_ret
      secrets == infra_setupSecrets_ret
      rdsConnection == Node("GlueConnection", "rds-connection",
        {P("name", Lit("rds-connection")),
         P("connectionProperties.JDBC_CONNECTION_URL",
           Tpl(<<"jdbc:postgresql://", "/">>,
               <<<<rdsCluster, "endpoint">>, <<rdsCluster, "databaseName">>>>)),
         P("connectionProperties.JDBC_ENFORCE_SSL", Lit("true")),
         P("connectionProperties.SECRET_ID", Ref(secrets.jobSecret, "arn")),
         P("physicalConnectionRequirements.availabilityZone",
           Ref(net.privateSubnet, "availabilityZone")),
         P("physicalConnectionRequirements.securityGroupIdList",
           Ref(sgs.glueJobsSecurityGroup, "id")),
         P("physicalConnectionRequirements.subnetId", Ref(net.privateSubnet, "id"))})
  IN <<New(m, aws), New(m, random)>>
     \o infra_setupNetworking
     \o infra_setupSecurityGroups(net.vpcId)
     \o <<New(m, glueScriptsBucket), New(m, accessBlock)>>
     \o infra_setupRds(sgs.rdsSecurityGroup,
           List2(Ref(net.isolatedSubnetA, "id"), Ref(net.isolatedSubnetB, "id")))
     \o infra_setupSecrets(Ref(rdsCluster, "clusterIdentifier"), Ref(rdsCluster, "endpoint"),
           Ref(rdsCluster, "databaseName"))
     \o <<Call(m, "setupDatabase"), Call(m, "setupMigration"), Call(m, "setupReaderFunction")>>
     \o <<New(m, rdsConnection)>>
     \o infra_createGlueJob(glueScriptsBucket.name, rdsConnection.name, secrets.jobSecret)

----------------------------------------------------------------------------
(* Variant "nat": src/unnamed/part_000                                     *)

\* faulty variant: the egress half attached to the RDS group instead of the Glue group
nat_rdsEgressRule_swapped(rdsSecurityGroup, glueSecurityGroup) ==
  Node("SecurityGroupRule", "rds-security-group-egress-rule",
    {P("type", Lit("egress")), P("fromPort", Num(5432)), P("toPort", Num(5432)),
     P("protocol", Lit("tcp")), P("securityGroupId", Ref(rdsSecurityGroup, "id")),
     P("sourceSecurityGroupId", Ref(glueSecurityGroup, "id"))})

\* faulty variant: the Glue egress rule toward the database names port 5433
nat_rdsEgressRule_wrongPort(rdsSecurityGroup, glueSecurityGroup) ==
  Node("SecurityGroupRule", "rds-security-group-egress-rule",
    {P("type", Lit("egress")), P("fromPort", Num(5433)), P("toPort", Num(5433)),
     P("protocol", Lit("tcp")), P("securityGroupId", Ref(glueSecurityGroup, "id")),
     P("sourceSecurityGroupId", Ref(rdsSecurityGroup, "id"))})

\* new SecurityGroupRule(this, 'rds-security-group-egress-rule', ...)
nat_rdsEgressRule(rdsSecurityGroup, glueSecurityGroup) ==
  Node("SecurityGroupRule", "rds-security-group-egress-rule",
    {P("type", Lit("egress")), P("fromPort", Num(5432)), P("toPort", Num(5432)),
     P("protocol", Lit("tcp")), P("securityGroupId", Ref(glueSecurityGroup, "id")),
     P("sourceSecurityGroupId", Ref(rdsSecurityGroup, "id"))})

\* faulty variant: the self-referential egress rule opened on port 443 only
nat_glueEgressRule_narrow(glueSecurityGroup) ==
  Node("SecurityGroupRule", "glue-security-group-egress-rule",
    {P("type", Lit("egress")), P("fromPort", Num(443)), P("toPort", Num(443)),
     P("protocol", Lit("tcp")), P("securityGroupId", Ref(glueSecurityGroup, "id")),
     P("sourceSecurityGroupId", Ref(glueSecurityGroup, "id"))})

\* new SecurityGroupRule(this, 'glue-security-group-egress-rule', ...)
nat_glueEgressRule(glueSecurityGroup) ==
  Node("SecurityGroupRule", "glue-security-group-egress-rule",
    {P("type", Lit("egress")), P("fromPort", Num(0)), P("toPort", Num(65535)),
     P("protocol", Lit("tcp")), P("securityGroupId", Ref(glueSecurityGroup, "id")),
     P("sourceSecurityGroupId", Ref(glueSecurityGroup, "id"))})

\* faulty variant: the open-CIDR rule is declared as an ingress rule
nat_awsServicesEgressRule_ingress(glueSecurityGroup) ==
  Node("SecurityGroupRule", "glue-security-group-egress-aws-services-rule",
    {P("type", Lit("ingress")), P("fromPort", Num(443)), P("toPort", Num(443)),
     P("protocol", Lit("tcp")), P("securityGroupId", Ref(glueSecurityGroup, "id")),
     P("cidrBlocks", Cidr(0, 0, 0, 0, 0))})

\* faulty variant: the open-CIDR egress rule also names a security group peer
nat_awsServicesEgressRule_twoPeers(glueSecurityGroup) ==
  Node("SecurityGroupRule", "glue-security-group-egress-aws-services-rule",
    {P("type", Lit("egress")), P("fromPort", Num(443)), P("toPort", Num(443)),
     P("protocol", Lit("tcp")), P("securityGroupId", Ref(glueSecurityGroup, "id")),
     P("cidrBlocks", Cidr(0, 0, 0, 0, 0)),
     P("sourceSecurityGroupId", Ref(glueSecurityGroup, "id"))})

\* new SecurityGroupRule(this, 'glue-security-group-egress-aws-services-rule', ...)
nat_awsServicesEgressRule(glueSecurityGroup) ==
  Node("SecurityGroupRule", "glue-security-group-egress-aws-services-rule",
    {P("type", Lit("egress")), P("fromPort", Num(443)), P("toPort", Num(443)),
     P("protocol", Lit("tcp")), P("securityGroupId", Ref(glueSecurityGroup, "id")),
     P("cidrBlocks", Cidr(0, 0, 0, 0, 0))})

nat_setupRdsSecurity(vpc, glueSecurityGroup) ==
  LET m == "setupRdsSecurity"
      rdsSecurityGroup == Node("SecurityGroup", "rds-security-group",
        {P("name", Lit("rds-security-group")),
         P("description", Lit("Security group for RDS database")), P("vpcId", Ref(vpc, "id"))})
      rdsIngress == Node("SecurityGroupRule", "rds-security-group-ingress-rule",
        {P("type", Lit("ingress")), P("fromPort", Num(5432)), P("toPort", Num(5432)),
         P("protocol", Lit("tcp")), P("securityGroupId", Ref(rdsSecurityGroup.name, "id")),
         P("sourceSecurityGroupId", Ref(glueSecurityGroup, "id"))})
      rdsEgress == nat_rdsEgressRule(rdsSecurityGroup.name, glueSecurityGroup)
      glueIngress == Node("SecurityGroupRule", "glue-security-group-ingress-rule",
        {P("type", Lit("ingress")), P("fromPort", Num(0)), P("toPort", Num(65535)),
         P("protocol", Lit("tcp")), P("securityGroupId", Ref(glueSecurityGroup, "id")),
         P("sourceSecurityGroupId", Ref(glueSecurityGroup, "id"))})
      glueEgress == nat_glueEgressRule(glueSecurityGroup)
  IN <<New(m, rdsSecurityGroup), New(m, rdsIngress), New(m, rdsEgress),
       New(m, glueIngress), New(m, glueEgress)>>

\* what setupRdsSecurity returns: the RDS security group construct
nat_setupRdsSecurity_ret == "rds-security-group"

\* this.vpc and this.rdsSubnets are fields the constructor has set
nat_setupRdsCluster(glueSecurityGroup, rdsMasterUsername, rdsMasterUserPassword) ==
  LET m == "setupRdsCluster"
      this == [vpc |-> "vpc", rdsSubnets |-> <<"rds-subnet-a", "rds-subnet-b">>]
      rdsSecurityGroup == nat_setupRdsSecurity_ret
      subnetGroup == Node("DbSubnetGroup", "rds-subnet-group",
        {P("name", Lit("rds-subnet-group")),
         P("subnetIds", [lits |-> <<>>, nums |-> <<>>,
                         refs |-> [i \in DOMAIN this.rdsSubnets |-> <<this.rdsSubnets[i], "id">>]])})
      rdsCluster == Node("RdsCluster", "rds-cluster",
        {P("clusterIdentifier", Lit("rds-cluster")), P("engine", Lit("aurora-postgresql")),
         P("engineMode", Lit("provisioned")), P("engineVersion", Lit("15.2")),
         P("databaseName", Lit("glue")), P("masterUsername", Lit(rdsMasterUsername)),
         P("masterPassword", rdsMasterUserPassword),
         P("vpcSecurityGroupIds", Ref(rdsSecurityGroup, "id")),
         P("dbSubnetGroupName", Ref(subnetGroup.name, "name")),
         P("skipFinalSnapshot", Lit("true"))})
  IN nat_setupRdsSecurity(this.vpc, glueSecurityGroup)
     \o <<New(m, subnetGroup), New(m, rdsCluster)>>

\* what setupRdsCluster returns: the cluster construct
nat_setupRdsCluster_ret == "rds-cluster"

\* faulty variant: a second version node is declared for the same secret
nat_setupRdsClusterSecret_twoVersions(rdsCluster, rdsMasterUsername, rdsMasterUserPassword) ==
  LET m == "setupRdsClusterSecret"
      rdsMasterUserSecret == Node("SecretsmanagerSecret", "rds-master-user-secret",
        {P("name", Lit("rds-master-user-secret-2")), P("description", Lit("RDS master user secret"))})
      version == Node("SecretsmanagerSecretVersion", "rds-master-user-secret-version",
        {P("secretId", Ref(rdsMasterUserSecret.name, "id")),
         P("secretString.dbClusterIdentifier", Ref(rdsCluster, "clusterIdentifier")),
         P("secretString.password", rdsMasterUserPassword),
         P("secretString.dbName", Ref(rdsCluster, "databaseName")),
         P("secretString.port", Num(5432)),
         P("secretString.host", Ref(rdsCluster, "endpoint")),
         P("secretString.username", Lit(rdsMasterUsername))})
      second == Node("SecretsmanagerSecretVersion", "rds-master-user-secret-version-2",
        {P("secretId", Ref(rdsMasterUserSecret.name, "id")),
         P("secretString.password", rdsMasterUserPassword)})
  IN <<New(m, rdsMasterUserSecret), New(m, version), New(m, second)>>

\* faulty variant: the payload carries a password written out in the program
nat_setupRdsClusterSecret_literal(rdsCluster, rdsMasterUsername, rdsMasterUserPassword) ==
  LET m == "setupRdsClusterSecret"
      rdsMasterUserSecret == Node("SecretsmanagerSecret", "rds-master-user-secret",
        {P("name", Lit("rds-master-user-secret-2")), P("description", Lit("RDS master user secret"))})
      version == Node("SecretsmanagerSecretVersion", "rds-master-user-secret-version",
        {P("secretId", Ref(rdsMasterUserSecret.name, "id")),
         P("secretString.dbClusterIdentifier", Ref(rdsCluster, "clusterIdentifier")),
         P("secretString.password", Lit("changeme")),
         P("secretString.dbName", Ref(rdsCluster, "databaseName")),
         P("secretString.port", Num(5432)),
         P("secretString.host", Ref(rdsCluster, "endpoint")),
         P("secretString.username", Lit(rdsMasterUsername))})
  IN <<New(m, rdsMasterUserSecret), New(m, version)>>

nat_setupRdsClusterSecret(rdsCluster, rdsMasterUsername, rdsMasterUserPassword) ==
  LET m == "setupRdsClusterSecret"
      rdsMasterUserSecret == Node("SecretsmanagerSecret", "rds-master-user-secret",
        {P("name", Lit("rds-master-user-secret-2")), P("description", Lit("RDS master user secret"))})
      version == Node("SecretsmanagerSecretVersion", "rds-master-user-secret-version",
        {P("secretId", Ref(rdsMasterUserSecret.name, "id")),
         P("secretString.dbClusterIdentifier", Ref(rdsCluster, "clusterIdentifier")),
         P("secretString.password", rdsMasterUserPassword),
         P("secretString.dbName", Ref(rdsCluster, "databaseName")),
         P("secretString.port", Num(5432)),
         P("secretString.host", Ref(rdsCluster, "endpoint")),
         P("secretString.username", Lit(rdsMasterUsername))})
  IN <<New(m, rdsMasterUserSecret), New(m, version)>>

\* what setupRdsClusterSecret returns: the secret construct
nat_setupRdsClusterSecret_ret == "rds-master-user-secret"

\* this.glueSubnet is a field the constructor has set
nat_createGlueJob(glueScriptsBucket, rdsCluster, rdsMasterUserSecret, glueSecurityGroup) ==
  LET m == "createGlueJob"
      this == [glueSubnet |-> "glue-subnet"]
      jobPolicyDocument == Node("DataAwsIamPolicyDocument", "glue-job-policy-document",
        {P("version", Lit("2012-10-17")),
         P("statement.0.sid", Lit("GlueJobAllowS3Access")),
         P("statement.0.effect", Lit("Allow")),
         P("statement.0.actions", List2(Lit("s3:GetObject"), Lit("s3:ListBucket"))),
         P("statement.0.resources",
           List2(Tpl(<<"/*">>, <<<<glueScriptsBucket, "arn">>>>), Ref(glueScriptsBucket, "arn"))),
         P("statement.1.sid", Lit("GlueJobAllowRdsSecretAccess")),
         P("statement.1.effect", Lit("Allow")),
         P("statement.1.actions", Lit("secretsmanager:GetSecretValue")),
         P("statement.1.resources", Ref(rdsMasterUserSecret, "arn"))})
      jobPolicy == Node("IamPolicy", "glue-job-policy",
        {P("name", Lit("glue-job-policy")), P("policy", Ref(jobPolicyDocument.name, "json"))})
      jobRole == Node("IamRole", "glue-job-role",
        {P("name", Lit("glue-job-role")),
         P("assumeRolePolicy.Statement.0.Effect", Lit("Allow")),
         P("assumeRolePolicy.Statement.0.Principal.Service", Lit("glue.amazonaws.com")),
         P("assumeRolePolicy.Statement.0.Action", Lit("sts:AssumeRole")),
         P("managedPolicyArns",
           List2(Ref(jobPolicy.name, "arn"),
                 Lit("arn:aws:iam::aws:policy/service-role/AWSGlueServiceRole")))})
      rdsConnection == Node("GlueConnection", "rds-connection",
        {P("name", Lit("rds-connection")),
         P("connectionProperties.JDBC_CONNECTION_URL",
           Tpl(<<"jdbc:postgresql://", "/">>,
               <<<<rdsCluster, "endpoint">>, <<rdsCluster, "databaseName">>>>)),
         P("connectionProperties.JDBC_ENFORCE_SSL", Lit("true")),
         P("connectionProperties.SECRET_ID", Ref(rdsMasterUserSecret, "id")),
         P("physicalConnectionRequirements.availabilityZone",
           Ref(this.glueSubnet, "availabilityZone")),
         P("physicalConnectionRequirements.securityGroupIdList", Ref(glueSecurityGroup, "id")),
         P("physicalConnectionRequirements.subnetId", Ref(this.glueSubnet, "id"))})
      script == Node("S3Object", "glue_job_script",
        {P("bucket", Ref(glueScriptsBucket, "id")), P("key", Lit("generate_data_to_rds.py")),
         P("source", Lit("glue_scripts/jobs/generate_data_to_rds.py"))})
      lib == Node("S3Object", "glue_job_lib",
        {P("bucket", Ref(glueScriptsBucket, "id")),
         P("key", Lit("glue_scripts-0.1.0-py3-none-any.whl")),
         P("source", Lit("glue_scripts/dist/glue_scripts-0.1.0-py3-none-any.whl"))})
      job == Node("GlueJob", "glue-job",
        {P("name", Lit("glue-job")),
         P("command.name", Lit("pythonshell")), P("command.pythonVersion", Lit("3.9")),
         P("command.scriptLocation",
           Tpl(<<"s3://", "/generate_data_to_rds.py">>, <<<<glueScriptsBucket, "id">>>>)),
         P("connections", Ref(rdsConnection.name, "name")),
         P("glueVersion", Lit("3.0")), P("maxCapacity", Lit("0.0625")),
         P("executionClass", Lit("STANDARD")),
         P("defaultArguments.--enable-metrics", Lit("true")),
         P("defaultArguments.--job-language", Lit("python")),
         P("defaultArguments.library-set", Lit("analytics")),
         P("defaultArguments.--enable-job-insights", Lit("false")),
         P("defaultArguments.--extra-py-files",
           Tpl(<<"s3://", "/glue_scripts-0.1.0-py3-none-any.whl">>, <<<<glueScriptsBucket, "id">>>>)),
         P("roleArn", Ref(jobRole.name, "arn")), P("timeout", Num(60))})
  IN <<New(m, jobPolicyDocument), New(m, jobPolicy), New(m, jobRole),
       New(m, rdsConnection), New(m, script), New(m, lib), New(m, job)>>

nat_methods == {"constructor", "setupRdsCluster", "setupRdsClusterSecret", "setupRdsSecurity",
                "createGlueJob"}

nat_constructor ==
  LET m == "constructor"
      aws == Node("AwsProvider", "aws", {P("region", Lit("eu-central-1"))})
      random == Node("RandomProvider", "random", {})
      vpc == Node("Vpc", "vpc",
        {P("cidrBlock", Cidr(10, 0, 0, 0, 16)), P("enableDnsHostnames", Lit("true")),
         P("enableDnsSupport", Lit("true"))})
      rdsSubnetA == Node("Subnet", "rds-subnet-a",
        {P("vpcId", Ref(vpc.name, "id")), P("cidrBlock", Cidr(10, 0, 1, 0, 24)),
         P("availabilityZone", Lit("eu-central-1a")), P("mapPublicIpOnLaunch", Lit("false")),
         P("tags.Name", Lit("rds-subnet-a"))})
      rdsSubnetB == Node("Subnet", "rds-subnet-b",
        {P("vpcId", Ref(vpc.name, "id")), P("cidrBlock", Cidr(10, 0, 2, 0, 24)),
         P("availabilityZone", Lit("eu-central-1b")), P("mapPublicIpOnLaunch", Lit("false")),
         P("tags.Name", Lit("rds-subnet-b"))})
      glueSubnet == Node("Subnet", "glue-subnet",
        {P("vpcId", Ref(vpc.name, "id")), P("cidrBlock", Cidr(10, 0, 3, 0, 24)),
         P("availabilityZone", Lit("eu-central-1a")), P("mapPublicIpOnLaunch", Lit("false")),
         P("tags.Name", Lit("glue-subnet"))})
      publicSubnet == Node("Subnet", "public-subnet",
        {P("vpcId", Ref(vpc.name, "id")), P("cidrBlock", Cidr(10, 0, 4, 0, 24)),
         P("availabilityZone", Lit("eu-central-1a")), P("tags.Name", Lit("public-subnet"))})
      internetGateway == Node("InternetGateway", "internet-gateway",
        {P("vpcId", Ref(vpc.name, "id"))})
      publicSubnetRouteTable == Node("RouteTable", "public-subnet-route-table",
        {P("vpcId", Ref(vpc.name, "id"))})
      publicAssociation == Node("RouteTableAssociation", "public-subnet-route-table-association",
        {P("routeTableId", Ref(publicSubnetRouteTable.name, "id")),
         P("subnetId", Ref(publicSubnet.name, "id"))})
      publicRoute == Node("Route", "public-subnet-route",
        {P("routeTableId", Ref(publicSubnetRouteTable.name, "id")),
         P("destinationCidrBlock", Cidr(0, 0, 0, 0, 0)),
         P("gatewayId", Ref(internetGateway.name, "id"))})
      elasticIp == Node("Eip", "elastic-ip", {P("vpc", Lit("true"))})
      natGateway == Node("NatGateway", "nat-gateway",
        {P("allocationId", Ref(elasticIp.name, "id")), P("subnetId", Ref(publicSubnet.name, "id"))})
      glueSubnetRouteTable == Node("RouteTable", "glue-subnet-route-table",
        {P("vpcId", Ref(vpc.name, "id"))})
      glueAssociation == Node("RouteTableAssociation", "glue-subnet-route-table-association",
        {P("routeTableId", Ref(glueSubnetRouteTable.name, "id")),
         P("subnetId", Ref(glueSubnet.name, "id"))})
      glueRoute == Node("Route", "glue-subnet-route",
        {P("routeTableId", Ref(glueSubnetRouteTable.name, "id")),
         P("destinationCidrBlock", Cidr(0, 0, 0, 0, 0)),
         P("natGatewayId", Ref(natGateway.name, "id"))})
      glueScriptsBucket == Node("S3Bucket", "glue-bucket",
        {P("bucket", Lit("gluescripts.akasper.codecentric.de"))})
      accessBlock == Node("S3BucketPublicAccessBlock", "glue-bucket-public-access-block",
        {P("bucket", Ref(glueScriptsBucket.name, "bucket")), P("blockPublicAcls", Lit("true")),
         P("blockPublicPolicy", Lit("true")), P("ignorePublicAcls", Lit("true")),
         P("restrictPublicBuckets", Lit("true"))})
      glueSecurityGroup == Node("SecurityGroup", "glue-security-group",
        {P("name", Lit("glue-security-group")),
         P("description", Lit("Security group for Glue job")), P("vpcId", Ref(vpc.name, "id"))})
      awsServicesEgress == nat_awsServicesEgressRule(glueSecurityGroup.name)
      rdsMasterUsername == "gluedbadmin"
      rdsMasterUserPassword == Node("Password", "rds-master-user-password",
        {P("length", Num(48)), P("special", Lit("false"))})
      rdsCluster == nat_setupRdsCluster_ret
      rdsClusterSecret == nat_setupRdsClusterSecret_ret
  IN <<New(m, aws), New(m, random), New(m, vpc), New(m, rdsSubnetA), New(m, rdsSubnetB),
       New(m, glueSubnet), New(m, publicSubnet), New(m, internetGateway),
       New(m, publicSubnetRouteTable), New(m, publicAssociation), New(m, publicRoute),
       New(m, elasticIp), New(m, natGateway), New(m, glueSubnetRouteTable),
       New(m, glueAssociation), New(m, glueRoute), New(m, glueScriptsBucket), New(m, accessBlock),
       New(m, glueSecurityGroup), New(m, awsServicesEgress), New(m, rdsMasterUserPassword)>>
     \o nat_setupRdsCluster(glueSecurityGroup.name, rdsMasterUsername,
           Ref(rdsMasterUserPassword.name, "result"))
     \o nat_setupRdsClusterSecret(rdsCluster, rdsMasterUsername,
           Ref(rdsMasterUserPassword.name, "result"))
     \o nat_createGlueJob(glueScriptsBucket.name, rdsCluster, rdsClusterSecret,
           glueSecurityGroup.name)

----------------------------------------------------------------------------
(* Variant "s3": src/main.ts                                               *)

s3_setupRdsSecurity(vpc, glueSecurityGroup) ==
  LET m == "setupRdsSecurity"
      rdsSecurityGroup == Node("SecurityGroup", "rds-security-group",
        {P("name", Lit("rds-security-group")),
         P("description", Lit("Security group for RDS database")), P("vpcId", Ref(vpc, "id"))})
      rdsIngress == Node("SecurityGroupRule", "rds-security-group-ingress-rule",
        {P("type", Lit("ingress")), P("fromPort", Num(5432)), P("toPort", Num(5432)),
         P("protocol", Lit("tcp")), P("securityGroupId", Ref(rdsSecurityGroup.name, "id")),
         P("sourceSecurityGroupId", Ref(glueSecurityGroup, "id"))})
      rdsEgress == Node("SecurityGroupRule", "rds-security-group-egress-rule",
        {P("type", Lit("egress")), P("fromPort", Num(5432)), P("toPort", Num(5432)),
         P("protocol", Lit("tcp")), P("securityGroupId", Ref(glueSecurityGroup, "id")),
         P("sourceSecurityGroupId", Ref(rdsSecurityGroup.name, "id"))})
      glueIngress == Node("SecurityGroupRule", "glue-security-group-ingress-rule",
        {P("type", Lit("ingress")), P("fromPort", Num(0)), P("toPort", Num(65535)),
         P("protocol", Lit("tcp")), P("securityGroupId", Ref(glueSecurityGroup, "id")),
         P("sourceSecurityGroupId", Ref(glueSecurityGroup, "id"))})
      glueEgress == Node("SecurityGroupRule", "glue-security-group-egress-rule",
        {P("type", Lit("egress")), P("fromPort", Num(0)), P("toPort", Num(65535)),
         P("protocol", Lit("tcp")), P("securityGroupId", Ref(glueSecurityGroup, "id")),
         P("sourceSecurityGroupId", Ref(glueSecurityGroup, "id"))})
  IN <<New(m, rdsSecurityGroup), New(m, rdsIngress), New(m, rdsEgress),
       New(m, glueIngress), New(m, glueEgress)>>

\* what setupRdsSecurity returns: the RDS security group construct
s3_setupRdsSecurity_ret == "rds-security-group"

\* this.vpc is a field the constructor has set
s3_setupRdsCluster(subnetIds, glueSecurityGroup, rdsMasterUsername, rdsMasterUserPassword) ==
  LET m == "setupRdsCluster"
      this == [vpc |-> "vpc"]
      rdsSecurityGroup == s3_setupRdsSecurity_ret
      subnetGroup == Node("DbSubnetGroup", "rds-subnet-group",
        {P("name", Lit("rds-subnet-group")), P("subnetIds", subnetIds)})
      rdsCluster == Node("RdsCluster", "rds-cluster",
        {P("clusterIdentifier", Lit("rds-cluster")), P("engine", Lit("aurora-postgresql")),
         P("engineMode", Lit("provisioned")), P("engineVersion", Lit("15.2")),
         P("databaseName", Lit("glue")), P("masterUsername", Lit(rdsMasterUsername)),
         P("masterPassword", rdsMasterUserPassword),
         P("vpcSecurityGroupIds", Ref(rdsSecurityGroup, "id")),
         P("dbSubnetGroupName", Ref(subnetGroup.name, "name")),
         P("skipFinalSnapshot", Lit("true"))})
  IN s3_setupRdsSecurity(this.vpc, glueSecurityGroup)
     \o <<New(m, subnetGroup), New(m, rdsCluster)>>

\* what setupRdsCluster returns: the cluster construct
s3_setupRdsCluster_ret == "rds-cluster"

\* faulty variant: the payload names a user other than the one passed in
s3_setupRdsClusterSecret_otherUser(rdsCluster, rdsMasterUsername, rdsMasterUserPassword) ==
  LET m == "setupRdsClusterSecret"
      rdsMasterUserSecret == Node("SecretsmanagerSecret", "rds-master-user-secret",
        {P("name", Lit("rds-master-user-secret-2")), P("description", Lit("RDS master user secret"))})
      version == Node("SecretsmanagerSecretVersion", "rds-master-user-secret-version",
        {P("secretId", Ref(rdsMasterUserSecret.name, "id")),
         P("secretString.dbClusterIdentifier", Ref(rdsCluster, "clusterIdentifier")),
         P("secretString.password", rdsMasterUserPassword),
         P("secretString.dbName", Ref(rdsCluster, "databaseName")),
         P("secretString.port", Num(5432)),
         P("secretString.host", Ref(rdsCluster, "endpoint")),
         P("secretString.username", Lit("dbadmin"))})
  IN <<New(m, rdsMasterUserSecret), New(m, version)>>

s3_setupRdsClusterSecret(rdsCluster, rdsMasterUsername, rdsMasterUserPassword) ==
  LET m == "setupRdsClusterSecret"
      rdsMasterUserSecret == Node("SecretsmanagerSecret", "rds-master-user-secret",
        {P("name", Lit("rds-master-user-secret-2")), P("description", Lit("RDS master user secret"))})
      version == Node("SecretsmanagerSecretVersion", "rds-master-user-secret-version",
        {P("secretId", Ref(rdsMasterUserSecret.name, "id")),
         P("secretString.dbClusterIdentifier", Ref(rdsCluster, "clusterIdentifier")),
         P("secretString.password", rdsMasterUserPassword),
         P("secretString.dbName", Ref(rdsCluster, "databaseName")),
         P("secretString.port", Num(5432)),
         P("secretString.host", Ref(rdsCluster, "endpoint")),
         P("secretString.username", Lit(rdsMasterUsername))})
  IN <<New(m, rdsMasterUserSecret), New(m, version)>>

\* what setupRdsClusterSecret returns: the secret construct
s3_setupRdsClusterSecret_ret == "rds-master-user-secret"

s3_createGlueJob(glueScriptsBucket, rdsCluster, rdsMasterUserSecret, glueSecurityGroup, subnetId) ==
  LET m == "createGlueJob"
      this == [s3Endpoint |-> "s3-endpoint", endpointsSecurityGroup |-> "endpoints-security-group"]
      jobPolicyDocument == Node("DataAwsIamPolicyDocument", "glue-job-policy-document",
        {P("version", Lit("2012-10-17")),
         P("statement.0.sid", Lit("GlueJobAllowS3Access")),
         P("statement.0.effect", Lit("Allow")),
         P("statement.0.actions", List2(Lit("s3:GetObject"), Lit("s3:ListBucket"))),
         P("statement.0.resources",
           List2(Tpl(<<"/*">>, <<<<glueScriptsBucket, "arn">>>>), Ref(glueScriptsBucket, "arn"))),
         P("statement.1.sid", Lit("GlueJobAllowRdsSecretAccess")),
         P("statement.1.effect", Lit("Allow")),
         P("statement.1.actions", Lit("secretsmanager:GetSecretValue")),
         P("statement.1.resources", Ref(rdsMasterUserSecret, "arn"))})
      jobPolicy == Node("IamPolicy", "glue-job-policy",
        {P("name", Lit("glue-job-policy")), P("policy", Ref(jobPolicyDocument.name, "json"))})
      jobRole == Node("IamRole", "glue-job-role",
        {P("name", Lit("glue-job-role")),
         P("assumeRolePolicy.Statement.0.Effect", Lit("Allow")),
         P("assumeRolePolicy.Statement.0.Principal.Service", Lit("glue.amazonaws.com")),
         P("assumeRolePolicy.Statement.0.Action", Lit("sts:AssumeRole")),
         P("managedPolicyArns",
           List2(Ref(jobPolicy.name, "arn"),
                 Lit("arn:aws:iam::aws:policy/service-role/AWSGlueServiceRole")))})
      rdsConnection == Node("GlueConnection", "rds-connection",
        {P("name", Lit("rds-connection")),
         P("connectionProperties.JDBC_CONNECTION_URL",
           Tpl(<<"jdbc:postgresql://", "/">>,
               <<<<rdsCluster, "endpoint">>, <<rdsCluster, "databaseName">>>>)),
         P("connectionProperties.JDBC_ENFORCE_SSL", Lit("true")),
         P("connectionProperties.SECRET_ID", Ref(rdsMasterUserSecret, "id")),
         P("physicalConnectionRequirements.availabilityZone",
           Tpl(<<"element(", ", 0)">>, <<<<rdsCluster, "availabilityZones">>>>)),
         P("physicalConnectionRequirements.securityGroupIdList", Ref(glueSecurityGroup, "id")),
         P("physicalConnectionRequirements.subnetId", subnetId)})
      s3EndpointEgress == Node("SecurityGroupRule", "glue-security-group-s3-endpoint-egress-rule",
        {P("description", Lit("Allow Glue access to S3 endpoint")), P("type", Lit("egress")),
         P("fromPort", Num(443)), P("toPort", Num(443)), P("protocol", Lit("tcp")),
         P("securityGroupId", Ref(glueSecurityGroup, "id")),
         P("prefixListIds", Ref(this.s3Endpoint, "prefixListId"))})
      endpointsEgress == Node("SecurityGroupRule", "glue-security-group-endpoints-egress-rule",
        {P("description", Lit("Allow Glue access to endpoints")), P("type", Lit("egress")),
         P("fromPort", Num(443)), P("toPort", Num(443)), P("protocol", Lit("tcp")),
         P("sourceSecurityGroupId", Ref(glueSecurityGroup, "id")),
         P("securityGroupId", Ref(this.endpointsSecurityGroup, "id"))})
      endpointsIngress == Node("SecurityGroupRule", "glue-security-group-endpoints-ingress-rule",
        {P("description", Lit("Allow Glue access to endpoints")), P("type", Lit("ingress")),
         P("fromPort", Num(443)), P("toPort", Num(443)), P("protocol", Lit("tcp")),
         P("sourceSecurityGroupId", Ref(this.endpointsSecurityGroup, "id")),
         P("securityGroupId", Ref(glueSecurityGroup, "id"))})
      script == Node("S3Object", "glue_job_script",
        {P("bucket", Ref(glueScriptsBucket, "id")), P("key", Lit("generate_data_to_rds.py")),
         P("source", Lit("glue_scripts/jobs/generate_data_to_rds.py"))})
      lib == Node("S3Object", "glue_job_lib",
        {P("bucket", Ref(glueScriptsBucket, "id")),
         P("key", Lit("glue_scripts-0.1.0-py3-none-any.whl")),
         P("source", Lit("glue_scripts/dist/glue_scripts-0.1.0-py3-none-any.whl"))})
      job == Node("GlueJob", "glue-job",
        {P("name", Lit("glue-job")),
         P("command.name", Lit("pythonshell")), P("command.pythonVersion", Lit("3.9")),
         P("command.scriptLocation",
           Tpl(<<"s3://", "/generate_data_to_rds.py">>, <<<<glueScriptsBucket, "id">>>>)),
         P("connections", Ref(rdsConnection.name, "name")),
         P("glueVersion", Lit("3.0")), P("maxCapacity", Lit("0.0625")),
         P("executionClass", Lit("STANDARD")),
         P("defaultArguments.--enable-metrics", Lit("true")),
         P("defaultArguments.--job-language", Lit("python")),
         P("defaultArguments.library-set", Lit("analytics")),
         P("defaultArguments.--enable-job-insights", Lit("false")),
         P("defaultArguments.--extra-py-files",
           Tpl(<<"s3://", "/glue_scripts-0.1.0-py3-none-any.whl">>, <<<<glueScriptsBucket, "id">>>>)),
         P("defaultArguments.--python-modules-installer-option",
           Tpl(<<"--no-index --no-deps --find-links s3://", "/">>, <<<<glueScriptsBucket, "id">>>>)),
         P("roleArn", Ref(jobRole.name, "arn")), P("timeout", Num(60))})
  IN <<New(m, jobPolicyDocument), New(m, jobPolicy), New(m, jobRole),
       New(m, rdsConnection), New(m, s3EndpointEgress), New(m, endpointsEgress),
       New(m, endpointsIngress), New(m, script), New(m, lib), New(m, job)>>

\* faulty variant: the table of the database subnets gets an inline default route
s3_s3EndpointRouteTable_defaultRoute(vpc) ==
  Node("RouteTable", "s3-endpoint-route-table",
    {P("vpcId", Ref(vpc, "id")),
     P("route", List2(Cidr(0, 0, 0, 0, 0), Ref("s3-endpoint", "id")))})

\* new RouteTable(this, 's3-endpoint-route-table', ...)
s3_s3EndpointRouteTable(vpc) ==
  Node("RouteTable", "s3-endpoint-route-table",
    {P("vpcId", Ref(vpc, "id")), P("route", Empty)})

s3_methods == {"constructor", "setupRdsCluster", "setupRdsClusterSecret", "setupRdsSecurity",
               "createGlueJob"}

s3_constructor ==
  LET m == "constructor"
      aws == Node("AwsProvider", "aws", {P("region", Lit("eu-central-1"))})
      random == Node("RandomProvider", "random", {})
      vpc == Node("Vpc", "vpc",
        {P("cidrBlock", Cidr(10, 0, 0, 0, 16)), P("enableDnsHostnames", Lit("true")),
         P("enableDnsSupport", Lit("true"))})
      s3Endpoint == Node("VpcEndpoint", "s3-endpoint",
        {P("vpcId", Ref(vpc.name, "id")), P("serviceName", Lit("com.amazonaws.eu-central-1.s3"))})
      endpointsSecurityGroup == Node("SecurityGroup", "endpoints-security-group",
        {P("name", Lit("endpoints-security-group")),
         P("description", Lit("Security group for VPC endpoints")),
         P("vpcId", Ref(vpc.name, "id"))})
      endpointsEgress == Node("SecurityGroupRule", "endpoints-security-group-egress-rule",
        {P("securityGroupId", Ref(endpointsSecurityGroup.name, "id")), P("type", Lit("egress")),
         P("fromPort", Num(0)), P("toPort", Num(65535)), P("protocol", Lit("tcp")),
         P("cidrBlocks", Cidr(0, 0, 0, 0, 0))})
      rdsSubnetA == Node("Subnet", "rds-subnet-a",
        {P("vpcId", Ref(vpc.name, "id")), P("cidrBlock", Cidr(10, 0, 1, 0, 24)),
         P("availabilityZone", Lit("eu-central-1a")), P("mapPublicIpOnLaunch", Lit("false"))})
      rdsSubnetB == Node("Subnet", "rds-subnet-b",
        {P("vpcId", Ref(vpc.name, "id")), P("cidrBlock", Cidr(10, 0, 2, 0, 24)),
         P("availabilityZone", Lit("eu-central-1b")), P("mapPublicIpOnLaunch", Lit("false"))})
      s3EndpointRouteTable == s3_s3EndpointRouteTable(vpc.name)
      associationA == Node("RouteTableAssociation", "rds-subnet-a-route-table-association",
        {P("subnetId", Ref(rdsSubnetA.name, "id")),
         P("routeTableId", Ref(s3EndpointRouteTable.name, "id"))})
      associationB == Node("RouteTableAssociation", "rds-subnet-b-route-table-association",
        {P("subnetId", Ref(rdsSubnetB.name, "id")),
         P("routeTableId", Ref(s3EndpointRouteTable.name, "id"))})
      endpointAssociation == Node("VpcEndpointRouteTableAssociation",
        "s3-endpoint-route-table-association",
        {P("routeTableId", Ref(s3EndpointRouteTable.name, "id")),
         P("vpcEndpointId", Ref(s3Endpoint.name, "id"))})
      glueScriptsBucket == Node("S3Bucket", "glue-bucket",
        {P("bucket", Lit("gluescripts.akasper.codecentric.de"))})
      accessBlock == Node("S3BucketPublicAccessBlock", "glue-bucket-public-access-block",
        {P("bucket", Ref(glueScriptsBucket.name, "bucket")), P("blockPublicAcls", Lit("true")),
         P("blockPublicPolicy", Lit("true")), P("ignorePublicAcls", Lit("true")),
         P("restrictPublicBuckets", Lit("true"))})
      glueSecurityGroup == Node("SecurityGroup", "glue-security-group",
        {P("name", Lit("glue-security-group")),
         P("description", Lit("Security group for Glue job")), P("vpcId", Ref(vpc.name, "id"))})
      rdsMasterUsername == "gluedbadmin"
      rdsMasterUserPassword == Node("Password", "rds-master-user-password",
        {P("length", Num(48)), P("special", Lit("false"))})
      rdsCluster == s3_setupRdsCluster_ret
      rdsClusterSecret == s3_setupRdsClusterSecret_ret
  IN <<New(m, aws), New(m, random), New(m, vpc), New(m, s3Endpoint),
       New(m, endpointsSecurityGroup), New(m, endpointsEgress), New(m, rdsSubnetA),
       New(m, rdsSubnetB), New(m, s3EndpointRouteTable), New(m, associationA),
       New(m, associationB), New(m, endpointAssociation), New(m, glueScriptsBucket),
       New(m, accessBlock), New(m, glueSecurityGroup), New(m, rdsMasterUserPassword)>>
     \o s3_setupRdsCluster(List2(Ref(rdsSubnetA.name, "id"), Ref(rdsSubnetB.name, "id")),
           glueSecurityGroup.name, rdsMasterUsername, Ref(rdsMasterUserPassword.name, "result"))
     \o s3_setupRdsClusterSecret(rdsCluster, rdsMasterUsername,
           Ref(rdsMasterUserPassword.name, "result"))
     \o s3_createGlueJob(glueScriptsBucket.name, rdsCluster, rdsClusterSecret,
           glueSecurityGroup.name, Ref(rdsSubnetA.name, "id"))

----------------------------------------------------------------------------
(* The composition run                                                     *)

Variants == {"infra", "nat", "s3"}

\* `app.synth()`, the statement after `new MyStack(app, ...)`
SynthStep == [op |-> "synth", method |-> "main", node |-> NoNode, callee |-> "synth"]

\* the statements one run of the variant's main module executes, in order
Program(v) ==
  CASE v = "infra" -> infra_constructor \o <<SynthStep>>
    [] v = "nat"   -> nat_constructor \o <<SynthStep>>
    [] v = "s3"    -> s3_constructor \o <<SynthStep>>

\* the methods the variant's class MyStack defines
Methods(v) ==
  CASE v = "infra" -> infra_methods
    [] v = "nat"   -> nat_methods
    [] v = "s3"    -> s3_methods

\* the statements that call a method the class does not define
UndefinedCalls(v) ==
  {i \in DOMAIN Program(v) : Program(v)[i].op = "call" /\ Program(v)[i].callee \notin Methods(v)}

Init ==
  /\ variant \in Variants
  /\ pc = 1
  /\ nodes = <<>>
  /\ outcome = "composing"
  /\ error = "none"
  /\ clusterZones = <<>>

\* `new X(this, id, props)`: the construct registers itself in the stack
Declare ==
  /\ outcome = "composing"
  /\ pc \in DOMAIN Program(variant)
  /\ Program(variant)[pc].op = "new"
  /\ nodes' = Append(nodes, Program(variant)[pc].node)
  /\ pc' = pc + 1
  /\ UNCHANGED <<variant, outcome, error, clusterZones>>

\* a type-checking build (ts-node's default) rejects the module before any
\* statement runs when it calls a method the class does not have (TS2339)
TypeCheck ==
  /\ outcome = "composing"
  /\ pc = 1
  /\ UndefinedCalls(variant) # {}
  /\ outcome' = "failed"
  /\ error' = "TSError"
  /\ UNCHANGED <<variant, pc, nodes, clusterZones>>

\* a transpile-only build runs up to the call of the missing method, which
\* throws `TypeError: this.<callee> is not a function` out of the constructor
CallUndefined ==
  /\ outcome = "composing"
  /\ pc \in UndefinedCalls(variant)
  /\ outcome' = "failed"
  /\ error' = "TypeError"
  /\ UNCHANGED <<variant, pc, nodes, clusterZones>>

\* `app.synth()`: the declared graph is handed to the provisioning engine
Synth ==
  /\ outcome = "composing"
  /\ pc \in DOMAIN Program(variant)
  /\ Program(variant)[pc].op = "synth"
  /\ outcome' = "synthesized"
  /\ pc' = pc + 1
  /\ UNCHANGED <<variant, nodes, error, clusterZones>>

\* the availability zones of the provider's region, 'eu-central-1'
RegionZones == {"eu-central-1a", "eu-central-1b", "eu-central-1c"}
\* the lists a computed list of zones can resolve to: non-empty, no zone twice
ZoneLists ==
  {zs \in UNION {[1..n -> RegionZones] : n \in 1..Cardinality(RegionZones)} :
     \A i, j \in DOMAIN zs : i # j => zs[i] # zs[j]}

\* the provisioning engine materializes the synthesized graph: attributes the
\* program did not set are computed by the provider, among them the cluster's
\* availabilityZones, which no stack sets
Materialize ==
  /\ outcome = "synthesized"
  /\ \E zs \in ZoneLists : clusterZones' = zs
  /\ outcome' = "materialized"
  /\ UNCHANGED <<variant, pc, nodes, error>>

Next == Declare \/ TypeCheck \/ CallUndefined \/ Synth \/ Materialize

Spec == Init /\ [][Next]_vars

----------------------------------------------------------------------------
(* Reading the declared graph                                              *)

Declared == Range(nodes)
OfKind(kind) == {n \in Declared : n.kind = kind}
IsDeclared(name) == \E n \in Declared : n.name = name
Has(n, key) == \E p \in n.props : p.key = key
Val(n, key) == (CHOOSE p \in n.props : p.key = key).val

\* the nodes whose attributes a value defers to
RefNodes(v) == {v.refs[i][1] : i \in DOMAIN v.refs}
\* the nodes a node depends on: the sources of the deferred values in its properties
Deps(n) == UNION {RefNodes(p.val) : p \in n.props}

\* every statement of the run that declares a node of this kind has executed
KindComplete(kind) ==
  /\ \E i \in DOMAIN Program(variant) : i < pc /\ Program(variant)[i].node.kind = kind
  /\ \A i \in DOMAIN Program(variant) : i >= pc => Program(variant)[i].node.kind # kind

\* security group rules (TrafficRule): direction, owner, peer, ports, protocol
Rules == OfKind("SecurityGroupRule")
RuleType(r) == Val(r, "type").lits[1]
Attached(r) == Val(r, "securityGroupId").refs[1][1]
GroupPeers(r) ==
  IF Has(r, "sourceSecurityGroupId") THEN RefNodes(Val(r, "sourceSecurityGroupId")) ELSE {}
CidrPeers(r) ==
  IF Has(r, "cidrBlocks") /\ Val(r, "cidrBlocks").nums # <<>>
  THEN {Val(r, "cidrBlocks").nums} ELSE {}
PrefixListPeers(r) ==
  IF Has(r, "prefixListIds") THEN Range(Val(r, "prefixListIds").refs) ELSE {}
PortRange(r) == <<Val(r, "fromPort").nums[1], Val(r, "toPort").nums[1]>>
Protocol(r) == Val(r, "protocol").lits[1]
OpenCidr == <<0, 0, 0, 0, 0>>

\* the security group of the Glue job / of the database, per variant
GlueGroup(v) == IF v = "infra" THEN "glue-jobs-security-group" ELSE "glue-security-group"
RdsGroup == "rds-security-group"

\* the rules of one direction on group `owner` with group `peer`, ports and protocol
RulesFor(type, owner, peer, ports, proto) ==
  {r \in Rules : /\ RuleType(r) = type /\ Attached(r) = owner /\ peer \in GroupPeers(r)
                 /\ PortRange(r) = ports /\ Protocol(r) = proto}

\* the flow a group-peered rule declares: egress on A toward B and ingress on B
\* from A both declare the flow A -> B
FlowOf(r, peer) ==
  IF RuleType(r) = "egress"
  THEN [from |-> Attached(r), to |-> peer, ports |-> PortRange(r), proto |-> Protocol(r)]
  ELSE [from |-> peer, to |-> Attached(r), ports |-> PortRange(r), proto |-> Protocol(r)]
Flows == UNION {{FlowOf(r, g) : g \in GroupPeers(r)} : r \in Rules}
MatchedPair(f) ==
  /\ Cardinality(RulesFor("egress", f.from, f.to, f.ports, f.proto)) = 1
  /\ Cardinality(RulesFor("ingress", f.to, f.from, f.ports, f.proto)) = 1
GlueToRds(v) == [from |-> GlueGroup(v), to |-> RdsGroup, ports |-> <<5432, 5432>>, proto |-> "tcp"]
SelfRules(type, g) == {r \in Rules : RuleType(r) = type /\ Attached(r) = g /\ g \in GroupPeers(r)}
EgressRulesOf(g) == {r \in Rules : RuleType(r) = "egress" /\ Attached(r) = g}

\* credentials and secrets
Passwords == OfKind("Password")
\* the properties of node n that carry the result of Password node p
ResultProps(n, p) == {q \in n.props : <<p.name, "result">> \in Range(q.val.refs)}
Consumers(p) == {n \in Declared : ResultProps(n, p) # {}}
SecretVersions == OfKind("SecretsmanagerSecretVersion")

----------------------------------------------------------------------------
(* C1  matched egress/ingress pairs                                        *)

\* C1 (as claimed): once all rules are declared, every flow between security
\* groups has exactly one egress rule on the source group and exactly one
\* ingress rule on the destination group with the same ports and protocol, and
\* the Glue-to-RDS flow on tcp/5432 is such a pair in every variant.
C1_AsClaimed ==
  KindComplete("SecurityGroupRule") =>
    /\ \A f \in Flows : MatchedPair(f)
    /\ MatchedPair(GlueToRds(variant))

\* C1 (amended): in the nat and s3 variants every flow between security groups
\* is declared as exactly one egress rule on the source and exactly one ingress
\* rule on the destination with the same ports and protocol, the Glue-to-RDS
\* flow on tcp/5432 included.  In the infra variant group-peered rules are
\* ingress rules only: Glue-to-RDS is exactly one ingress rule on the RDS group
\* sourced from the Glue group, with no group-peered egress counterpart; the
\* Glue group's only egress rule is tcp/0-65535 to the open CIDR.
C1_MatchedPairs ==
  KindComplete("SecurityGroupRule") =>
    IF variant = "infra"
    THEN /\ \A r \in Rules : GroupPeers(r) # {} => RuleType(r) = "ingress"
         /\ Cardinality(RulesFor("ingress", RdsGroup, GlueGroup(variant), <<5432, 5432>>, "tcp")) = 1
         /\ \A r \in EgressRulesOf(GlueGroup(variant)) :
              /\ CidrPeers(r) = {OpenCidr} /\ GroupPeers(r) = {}
              /\ PortRange(r) = <<0, 65535>> /\ Protocol(r) = "tcp"
         /\ Cardinality(EgressRulesOf(GlueGroup(variant))) = 1
    ELSE /\ \A f \in Flows : MatchedPair(f)
         /\ MatchedPair(GlueToRds(variant))

C1_Witness ==
  /\ variant = "nat"
  /\ KindComplete("SecurityGroupRule")
  /\ RulesFor("egress", GlueGroup(variant), RdsGroup, <<5432, 5432>>, "tcp") # {}
  /\ RulesFor("ingress", RdsGroup, GlueGroup(variant), <<5432, 5432>>, "tcp") # {}

----------------------------------------------------------------------------
(* C2  consumers of a generated password                                   *)

\* C2 (as claimed): the only nodes whose properties consume the result of a
\* Password node are secret version nodes.
C2_AsClaimed ==
  \A p \in Passwords : \A n \in Consumers(p) : n.kind = "SecretsmanagerSecretVersion"

\* C2 (amended): the result of a Password node is consumed only as a deferred
\* value, and only by the password field of a secret version's payload or by
\* the masterPassword property of the database cluster; no other property of
\* any node carries it.
C2_PasswordConsumers ==
  \A p \in Passwords : \A n \in Consumers(p) : \A q \in ResultProps(n, p) :
    /\ q.val = Ref(p.name, "result")
    /\ \/ n.kind = "SecretsmanagerSecretVersion" /\ q.key = "secretString.password"
       \/ n.kind = "RdsCluster" /\ q.key = "masterPassword"

C2_Witness ==
  \E p \in Passwords :
    /\ \E n \in Consumers(p) : n.kind = "RdsCluster"
    /\ \E n \in Consumers(p) : n.kind = "SecretsmanagerSecretVersion"
    /\ outcome = "synthesized"

----------------------------------------------------------------------------
(* C3  one secret per credential                                           *)

\* C3: no two secret version nodes carry the result of the same Password node.
C3_OneSecretPerPassword ==
  \A p \in Passwords :
    Cardinality({n \in SecretVersions : ResultProps(n, p) # {}}) <= 1

C3_Witness ==
  /\ variant = "infra"
  /\ Cardinality(Passwords) = 3
  /\ Cardinality(SecretVersions) = 3
  /\ \A p \in Passwords : \E n \in SecretVersions : ResultProps(n, p) # {}

----------------------------------------------------------------------------
(* C4  one peer per rule                                                   *)

\* C4 (as claimed): every security group rule has exactly one peer, and it is
\* a security group or a CIDR block.
C4_AsClaimed ==
  \A r \in Rules : Cardinality(GroupPeers(r)) + Cardinality(CidrPeers(r)) = 1

\* C4 (amended): every security group rule has exactly one peer, and it is a
\* security group, a CIDR block or a prefix list (the S3 endpoint's), never two
\* of them and never none.
C4_OnePeer ==
  \A r \in Rules :
    Cardinality(GroupPeers(r)) + Cardinality(CidrPeers(r)) + Cardinality(PrefixListPeers(r)) = 1

C4_Witness ==
  /\ variant = "s3"
  /\ KindComplete("SecurityGroupRule")
  /\ \E r \in Rules : PrefixListPeers(r) # {}
  /\ \E r \in Rules : CidrPeers(r) # {}
  /\ \E r \in Rules : GroupPeers(r) # {}

----------------------------------------------------------------------------
(* C5  the Glue group's self-permission                                    *)

\* C5 (as claimed): the Glue group has exactly one ingress rule and exactly
\* one egress rule whose peer is the group itself, with equal ports and protocol.
C5_AsClaimed ==
  KindComplete("SecurityGroupRule") =>
    LET g == GlueGroup(variant) IN
    /\ Cardinality(SelfRules("ingress", g)) = 1
    /\ Cardinality(SelfRules("egress", g)) = 1
    /\ \A i \in SelfRules("ingress", g) : \A e \in SelfRules("egress", g) :
         PortRange(i) = PortRange(e) /\ Protocol(i) = Protocol(e)

\* C5 (amended): in the nat and s3 variants the Glue group has exactly one
\* ingress and exactly one egress rule whose peer is the group itself, both
\* tcp/0-65535.  In the infra variant only the ingress half is self-referential
\* (one rule, tcp/0-65535); the group has no self-referential egress rule.
C5_SelfPermission ==
  KindComplete("SecurityGroupRule") =>
    LET g == GlueGroup(variant) IN
    /\ Cardinality(SelfRules("ingress", g)) = 1
    /\ \A i \in SelfRules("ingress", g) : PortRange(i) = <<0, 65535>> /\ Protocol(i) = "tcp"
    /\ IF variant = "infra"
       THEN SelfRules("egress", g) = {}
       ELSE /\ Cardinality(SelfRules("egress", g)) = 1
            /\ \A e \in SelfRules("egress", g) :
                 PortRange(e) = <<0, 65535>> /\ Protocol(e) = "tcp"

C5_Witness ==
  /\ variant = "nat"
  /\ outcome = "synthesized"
  /\ SelfRules("ingress", GlueGroup(variant)) # {}
  /\ SelfRules("egress", GlueGroup(variant)) # {}

----------------------------------------------------------------------------
(* C6  outcomes of composition                                             *)

\* C6 (as claimed): a run that has ended has either handed the graph with the
\* Glue connection and the Glue job to synth, or failed with a structural
\* error (a cycle or a dangling reference).
C6_AsClaimed ==
  /\ outcome = "synthesized" => OfKind("GlueConnection") # {} /\ OfKind("GlueJob") # {}
  /\ outcome = "failed" => error \in {"CycleDetectedError", "DanglingReferenceError"}
  /\ outcome = "composing" => pc \in DOMAIN Program(variant)

----------------------------------------------------------------------------
(* C7  acyclic dependencies                                                *)

NodeNamed(name) == CHOOSE n \in Declared : n.name = name
RECURSIVE ReachFrom(_, _)
ReachFrom(frontier, seen) ==
  LET nxt == UNION {Deps(n) : n \in {d \in Declared : d.name \in frontier}} \ seen
  IN IF nxt = {} THEN seen ELSE ReachFrom(nxt, seen \cup nxt)
\* the nodes n depends on, directly or transitively
DependsOn(name) == ReachFrom({name}, {})

\* C7: no declared node depends, directly or transitively, on its own output.
C7_Acyclic == \A n \in Declared : n.name \notin DependsOn(n.name)

C7_Witness ==
  /\ outcome = "synthesized"
  /\ "vpc" \in DependsOn("glue-job")
  /\ "vpc" \notin Deps(NodeNamed("glue-job"))

----------------------------------------------------------------------------
(* C8, C9, C10  routing per tier                                           *)

\* the tiers of the subnets, as the comments of the constructors name them
IsolatedSubnets(v) ==
  IF v = "infra" THEN {"isolated-subnet-a", "isolated-subnet-b"}
  ELSE {"rds-subnet-a", "rds-subnet-b"}
PrivateSubnets(v) ==
  CASE v = "infra" -> {"private-subnet"} [] v = "nat" -> {"glue-subnet"} [] v = "s3" -> {}
PublicSubnets(v) == IF v = "s3" THEN {} ELSE {"public-subnet"}

\* the route tables explicitly associated with a subnet
TablesOf(subnet) ==
  UNION {RefNodes(Val(a, "routeTableId")) :
           a \in {x \in OfKind("RouteTableAssociation") : subnet \in RefNodes(Val(x, "subnetId"))}}
\* the table that applies: an associated one, else the main table of the subnet's VPC
AppliedTables(subnet) ==
  IF TablesOf(subnet) # {} THEN TablesOf(subnet)
  ELSE IF IsDeclared(subnet) THEN RefNodes(Val(NodeNamed(subnet), "vpcId")) ELSE {}
RoutesIn(table) == {r \in OfKind("Route") : table \in RefNodes(Val(r, "routeTableId"))}
DefaultRoutesIn(table) ==
  {r \in RoutesIn(table) : Val(r, "destinationCidrBlock").nums = OpenCidr}
HasOpenCidr(nums) ==
  \E i \in DOMAIN nums : i % 5 = 1 /\ i + 4 <= Len(nums) /\ SubSeq(nums, i, i + 4) = OpenCidr
\* the table node itself lists a default route inline
InlineDefault(table) ==
  \E n \in Declared : n.name = table /\ Has(n, "route") /\ HasOpenCidr(Val(n, "route").nums)
NetworkComplete ==
  KindComplete("Subnet") /\ KindComplete("RouteTableAssociation") /\ KindComplete("Route")

\* C8: the table that applies to an isolated subnet has no default route,
\* inline or as a Route node, and no Route node targets it at all.
C8_IsolatedNoDefaultRoute ==
  \A s \in IsolatedSubnets(variant) : \A t \in AppliedTables(s) :
    RoutesIn(t) = {} /\ ~InlineDefault(t)

C8_Witness ==
  /\ variant = "s3"
  /\ outcome = "synthesized"
  /\ \A s \in IsolatedSubnets(variant) : TablesOf(s) = {"s3-endpoint-route-table"}

\* C9: once the network is declared, the private subnet has exactly one
\* associated table, that table has exactly one default route, and the route's
\* target is a NAT gateway node.
C9_PrivateDefaultRoute ==
  NetworkComplete =>
    \A s \in PrivateSubnets(variant) :
      /\ Cardinality(TablesOf(s)) = 1
      /\ \A t \in TablesOf(s) :
           /\ ~InlineDefault(t)
           /\ Cardinality(DefaultRoutesIn(t)) = 1
           /\ \A r \in DefaultRoutesIn(t) :
                /\ Has(r, "natGatewayId") /\ ~Has(r, "gatewayId")
                /\ \A g \in RefNodes(Val(r, "natGatewayId")) :
                     IsDeclared(g) /\ NodeNamed(g).kind = "NatGateway"

C9_Witness ==
  /\ variant = "infra"
  /\ NetworkComplete
  /\ \E r \in OfKind("Route") : Has(r, "natGatewayId")
  /\ TablesOf("private-subnet") # {}

\* C10: once the network is declared, the public subnet has exactly one
\* associated table, that table has exactly one default route, and the route's
\* target is an internet gateway attached to the VPC of the public subnet.
C10_PublicDefaultRoute ==
  NetworkComplete =>
    \A s \in PublicSubnets(variant) :
      /\ Cardinality(TablesOf(s)) = 1
      /\ \A t \in TablesOf(s) :
           /\ ~InlineDefault(t)
           /\ Cardinality(DefaultRoutesIn(t)) = 1
           /\ \A r \in DefaultRoutesIn(t) :
                /\ Has(r, "gatewayId") /\ ~Has(r, "natGatewayId")
                /\ \A g \in RefNodes(Val(r, "gatewayId")) :
                     /\ IsDeclared(g) /\ NodeNamed(g).kind = "InternetGateway"
                     /\ Val(NodeNamed(g), "vpcId") = Val(NodeNamed(s), "vpcId")

C10_Witness ==
  /\ variant = "nat"
  /\ NetworkComplete
  /\ \E r \in OfKind("Route") : Has(r, "gatewayId")
  /\ TablesOf("public-subnet") # {}

\* C11: once the network is declared, every NAT gateway that a default route
\* of the private subnet's table targets is itself placed in the public
\* subnet, and in no other subnet.
C11_NatInPublicSubnet ==
  NetworkComplete =>
    \A s \in PrivateSubnets(variant) : \A t \in TablesOf(s) :
      \A r \in DefaultRoutesIn(t) :
        Has(r, "natGatewayId") =>
          \A g \in RefNodes(Val(r, "natGatewayId")) :
            /\ IsDeclared(g)
            /\ Has(NodeNamed(g), "subnetId")
            /\ RefNodes(Val(NodeNamed(g), "subnetId")) # {}
            /\ RefNodes(Val(NodeNamed(g), "subnetId")) \subseteq PublicSubnets(variant)

C11_Witness ==
  /\ variant = "nat"
  /\ NetworkComplete
  /\ \E r \in DefaultRoutesIn("glue-subnet-route-table") :
       /\ Has(r, "natGatewayId")
       /\ \E g \in RefNodes(Val(r, "natGatewayId")) :
            RefNodes(Val(NodeNamed(g), "subnetId")) = {"public-subnet"}

\* the rule lists 0.0.0.0/0 among its CIDR peers
OpenCidrPeer(r) == Has(r, "cidrBlocks") /\ HasOpenCidr(Val(r, "cidrBlocks").nums)

\* C12: a rule whose peer is a security group (another one or its own) has no
\* open CIDR peer; a rule with an open CIDR peer is an egress rule with no
\* group peer; no ingress rule has an open CIDR source.
C12_OpenCidrOnlyEgress ==
  \A r \in Rules :
    /\ GroupPeers(r) # {} => ~OpenCidrPeer(r)
    /\ OpenCidrPeer(r) => RuleType(r) = "egress" /\ GroupPeers(r) = {}
    /\ RuleType(r) = "ingress" => ~OpenCidrPeer(r)

C12_Witness ==
  /\ KindComplete("SecurityGroupRule")
  /\ \E r \in Rules : OpenCidrPeer(r) /\ RuleType(r) = "egress"
  /\ \E r \in Rules : RuleType(r) = "ingress" /\ GroupPeers(r) # {}
  /\ \E r \in Rules : RuleType(r) = "egress" /\ GroupPeers(r) # {}

\* the inbound rules of a security group
IngressRulesOf(g) == {r \in Rules : RuleType(r) = "ingress" /\ Attached(r) = g}
\* the statements of the run that have executed and declared a node
Executed == {i \in DOMAIN Program(variant) : i < pc /\ Program(variant)[i].op = "new"}

\* C13: once every rule is declared, the database security group has exactly
\* one inbound rule: tcp, ports 5432 to 5432, its only peer the Glue jobs
\* security group; the group node lists no inbound rule inline; and every rule
\* in the graph is the node of an executed statement, ports unchanged.
C13_RdsIngressExact ==
  /\ Cardinality(IngressRulesOf(RdsGroup)) <= 1
  /\ \A r \in IngressRulesOf(RdsGroup) :
       /\ Protocol(r) = "tcp" /\ PortRange(r) = <<5432, 5432>>
       /\ GroupPeers(r) = {GlueGroup(variant)}
       /\ CidrPeers(r) = {} /\ PrefixListPeers(r) = {}
  /\ KindComplete("SecurityGroupRule") => Cardinality(IngressRulesOf(RdsGroup)) = 1
  /\ \A g \in OfKind("SecurityGroup") : ~Has(g, "ingress")
  /\ \A r \in Rules : \E i \in Executed :
       /\ Program(variant)[i].node.name = r.name
       /\ PortRange(Program(variant)[i].node) = PortRange(r)

C13_Witness ==
  /\ variant = "s3"
  /\ outcome = "synthesized"
  /\ Cardinality(IngressRulesOf(RdsGroup)) = 1
  /\ Cardinality(Rules) > 4

\* the credential field of a secret version's payload
PayloadPassword(v) == Val(v, "secretString.password")

\* C14: the password field of every secret version's payload holds no literal
\* text and no number, only one deferred value: the result attribute of a
\* declared Password node.
C14_PayloadDeferred ==
  \A v \in SecretVersions :
    /\ Has(v, "secretString.password")
    /\ PayloadPassword(v).lits = <<>> /\ PayloadPassword(v).nums = <<>>
    /\ Len(PayloadPassword(v).refs) = 1
    /\ PayloadPassword(v).refs[1][2] = "result"
    /\ \E p \in Passwords : p.name = PayloadPassword(v).refs[1][1]

C14_Witness ==
  /\ variant = "nat"
  /\ \E v \in SecretVersions :
       PayloadPassword(v) = Ref("rds-master-user-password", "result")

\* CIDR blocks: <<a, b, c, d, len>> is the block of addresses that share the
\* first len bits of a.b.c.d
PrefixBits(len, i) ==
  IF len >= 8 * i THEN 8 ELSE IF len <= 8 * (i - 1) THEN 0 ELSE len - 8 * (i - 1)
SamePrefix(x, y, len) ==
  \A i \in 1..4 : x[i] \div 2^(8 - PrefixBits(len, i)) = y[i] \div 2^(8 - PrefixBits(len, i))
\* block x contains block y
CidrContains(x, y) == x[5] <= y[5] /\ SamePrefix(x, y, x[5])
\* two blocks share an address exactly when one contains the other
CidrOverlap(x, y) == CidrContains(x, y) \/ CidrContains(y, x)
CidrOf(n) == Val(n, "cidrBlock").nums
Subnets == OfKind("Subnet")
SubnetsIn(names) == {n \in Subnets : n.name \in names}
ZoneOf(n) == Val(n, "availabilityZone").lits[1]
VpcBlock == <<10, 0, 0, 0, 16>>
DisjointWithinVpc ==
  /\ \A v \in OfKind("Vpc") : CidrOf(v) = VpcBlock
  /\ \A n \in Subnets : CidrContains(VpcBlock, CidrOf(n))
  /\ \A n1, n2 \in Subnets : n1 # n2 => ~CidrOverlap(CidrOf(n1), CidrOf(n2))

\* C15 as stated: once the subnets are declared there are exactly 2 isolated,
\* 1 private and 1 public subnet, pairwise non-overlapping, each inside
\* 10.0.0.0/16.
C15_AsClaimed ==
  KindComplete("Subnet") =>
    /\ Cardinality(SubnetsIn(IsolatedSubnets(variant))) = 2
    /\ Cardinality(SubnetsIn(PrivateSubnets(variant))) = 1
    /\ Cardinality(SubnetsIn(PublicSubnets(variant))) = 1
    /\ Cardinality(Subnets) = 4
    /\ DisjointWithinVpc

\* C15: once the subnets are declared, the VPC block is 10.0.0.0/16 and there
\* are exactly 2 isolated subnets, in eu-central-1a and eu-central-1b; the
\* stacks with a NAT gateway add exactly 1 private and 1 public subnet, the
\* S3-endpoint stack adds none; the subnet blocks are pairwise non-overlapping
\* and each contained in 10.0.0.0/16.
C15_SubnetLayout ==
  KindComplete("Subnet") =>
    /\ Cardinality(SubnetsIn(IsolatedSubnets(variant))) = 2
    /\ {ZoneOf(n) : n \in SubnetsIn(IsolatedSubnets(variant))} = {"eu-central-1a", "eu-central-1b"}
    /\ Cardinality(SubnetsIn(PrivateSubnets(variant))) = (IF variant = "s3" THEN 0 ELSE 1)
    /\ Cardinality(SubnetsIn(PublicSubnets(variant))) = (IF variant = "s3" THEN 0 ELSE 1)
    /\ Cardinality(Subnets) = (IF variant = "s3" THEN 2 ELSE 4)
    /\ DisjointWithinVpc

C15_Witness ==
  /\ variant = "infra"
  /\ KindComplete("Subnet")
  /\ Cardinality(Subnets) = 4
  /\ \E n \in Subnets : CidrOf(n) = <<10, 0, 3, 0, 24>>

\* stored secrets: storage nodes, their version nodes, and the statements of
\* the program that declare a node, executed or not
Secrets == OfKind("SecretsmanagerSecret")
VersionsOf(s) == {v \in SecretVersions : Val(v, "secretId") = Ref(s.name, "id")}
StatementNodes ==
  {Program(variant)[i].node : i \in {j \in DOMAIN Program(variant) : Program(variant)[j].op = "new"}}
NamesOfKind(kind) == {n.name : n \in {x \in StatementNodes : x.kind = kind}}
\* the deferred values of a node: <<source node, attribute>>
RefsOf(n) == UNION {Range(p.val.refs) : p \in n.props}

\* C17: every version node's secretId is the id of one declared storage node;
\* a storage node never has two version nodes and, once the versions are
\* declared, has exactly one; and no statement of the program other than a
\* version node's refers to a version node or to any attribute of a storage
\* node besides id, arn and name.
C17_SecretShape ==
  /\ \A v \in SecretVersions : \E s \in Secrets : Val(v, "secretId") = Ref(s.name, "id")
  /\ \A s \in Secrets : Cardinality(VersionsOf(s)) <= 1
  /\ KindComplete("SecretsmanagerSecretVersion") =>
       \A s \in Secrets : Cardinality(VersionsOf(s)) = 1
  /\ \A n \in StatementNodes : \A r \in RefsOf(n) :
       /\ r[1] \notin NamesOfKind("SecretsmanagerSecretVersion")
       /\ (r[1] \in NamesOfKind("SecretsmanagerSecret") /\ n.kind # "SecretsmanagerSecretVersion")
            => r[2] \in {"id", "arn", "name"}

C17_Witness ==
  /\ variant = "s3"
  /\ outcome = "synthesized"
  /\ Cardinality(VersionsOf(NodeNamed("rds-master-user-secret"))) = 1
  /\ \E n \in OfKind("GlueConnection") : <<"rds-master-user-secret", "id">> \in RefsOf(n)
  /\ \E n \in Declared :
       n.kind # "GlueConnection" /\ <<"rds-master-user-secret", "arn">> \in RefsOf(n)

\* the rules carrying a given description
RulesDescribed(text) == {r \in Rules : Has(r, "description") /\ Val(r, "description") = Lit(text)}
EndpointsGroup == "endpoints-security-group"

\* C18: in the S3-endpoint stack, once the rules are declared, the rules
\* described 'Allow Glue access to endpoints' are one egress and one ingress
\* rule on tcp/443; the egress rule is attached to the Glue security group with
\* the endpoints group as peer, the ingress rule to the endpoints group with
\* the Glue group as source.
C18_AsClaimed ==
  (variant = "s3" /\ KindComplete("SecurityGroupRule")) =>
    /\ {RuleType(r) : r \in RulesDescribed("Allow Glue access to endpoints")} = {"egress", "ingress"}
    /\ \A r \in RulesDescribed("Allow Glue access to endpoints") :
         /\ Protocol(r) = "tcp" /\ PortRange(r) = <<443, 443>>
         /\ RuleType(r) = "egress" =>
              Attached(r) = GlueGroup("s3") /\ GroupPeers(r) = {EndpointsGroup}
         /\ RuleType(r) = "ingress" =>
              Attached(r) = EndpointsGroup /\ GroupPeers(r) = {GlueGroup("s3")}

\* the subnets a database subnet group lists
SubnetGroups == OfKind("DbSubnetGroup")
ListedSubnets(g) == RefNodes(Val(g, "subnetIds"))

\* C19: every database subnet group lists subnets by their id only, lists
\* exactly the isolated subnets, each once, none of them a private or public
\* subnet, and the listed subnets are declared in pairwise distinct
\* availability zones.
C19_SubnetGroupIsolated ==
  \A g \in SubnetGroups :
    /\ Val(g, "subnetIds").lits = <<>> /\ Val(g, "subnetIds").nums = <<>>
    /\ \A r \in Range(Val(g, "subnetIds").refs) : r[2] = "id"
    /\ ListedSubnets(g) = IsolatedSubnets(variant)
    /\ Len(Val(g, "subnetIds").refs) = Cardinality(IsolatedSubnets(variant))
    /\ ListedSubnets(g) \cap (PrivateSubnets(variant) \cup PublicSubnets(variant)) = {}
    /\ \A a \in ListedSubnets(g) : IsDeclared(a) /\ NodeNamed(a).kind = "Subnet"
    /\ \A a, b \in ListedSubnets(g) :
         a # b => ZoneOf(NodeNamed(a)) # ZoneOf(NodeNamed(b))

C19_Witness ==
  /\ variant = "infra"
  /\ \E g \in SubnetGroups :
       /\ ListedSubnets(g) = {"isolated-subnet-a", "isolated-subnet-b"}
       /\ {ZoneOf(NodeNamed(a)) : a \in ListedSubnets(g)} = {"eu-central-1a", "eu-central-1b"}
  /\ IsDeclared("private-subnet") /\ IsDeclared("public-subnet")

\* the CIDR blocks a rule lists, five numbers each
CidrBlocksOf(r) ==
  IF Has(r, "cidrBlocks")
  THEN {SubSeq(Val(r, "cidrBlocks").nums, i, i + 4) :
          i \in {j \in DOMAIN Val(r, "cidrBlocks").nums :
                   j % 5 = 1 /\ j + 4 <= Len(Val(r, "cidrBlocks").nums)}}
  ELSE {}
CoversPort(r, proto, port) ==
  Protocol(r) = proto /\ PortRange(r)[1] <= port /\ port <= PortRange(r)[2]
\* the rule's CIDR peers contain every subnet the database is placed in
CidrCoversDatabase(r) ==
  /\ SubnetsIn(IsolatedSubnets(variant)) # {}
  /\ \A n \in SubnetsIn(IsolatedSubnets(variant)) :
       \E c \in CidrBlocksOf(r) : CidrContains(c, CidrOf(n))

\* C20: once the rules are declared, some egress rule attached to the Glue
\* security group covers tcp/5432 with the database group as peer or with a
\* CIDR block containing the database subnets, and some ingress rule attached
\* to the database group covers tcp/5432 with the Glue group as source.
C20_GlueToRdsBothEnds ==
  KindComplete("SecurityGroupRule") =>
    /\ \E r \in EgressRulesOf(GlueGroup(variant)) :
         /\ CoversPort(r, "tcp", 5432)
         /\ RdsGroup \in GroupPeers(r) \/ CidrCoversDatabase(r)
    /\ \E r \in IngressRulesOf(RdsGroup) :
         CoversPort(r, "tcp", 5432) /\ GlueGroup(variant) \in GroupPeers(r)

C20_Witness ==
  /\ variant = "infra"
  /\ KindComplete("SecurityGroupRule")
  /\ \E r \in EgressRulesOf(GlueGroup(variant)) :
       CoversPort(r, "tcp", 5432) /\ CidrCoversDatabase(r) /\ GroupPeers(r) = {}
  /\ \E r \in IngressRulesOf(RdsGroup) : GroupPeers(r) = {GlueGroup(variant)}

\* Glue connections and the values their physical requirements resolve to
Connections == OfKind("GlueConnection")
ConnectionSubnets(c) == RefNodes(Val(c, "physicalConnectionRequirements.subnetId"))
\* Fn.element(list, index): the element at the zero-based index, wrapping around
Element(list, index) == list[(index % Len(list)) + 1]
\* what a zone-valued property is once the graph is materialized: a subnet's
\* availabilityZone is the zone the subnet was declared in, element 0 of the
\* cluster's availabilityZones is the first zone the provider reports
ResolvedZone(v) ==
  IF v.lits = <<>> /\ Len(v.refs) = 1 /\ v.refs[1][2] = "availabilityZone"
  THEN ZoneOf(NodeNamed(v.refs[1][1]))
  ELSE IF v.lits = <<"element(", ", 0)">> /\ Len(v.refs) = 1 /\ v.refs[1][2] = "availabilityZones"
  THEN Element(clusterZones, 0)
  ELSE v.lits[1]

\* C21: in every materialized graph, each Glue connection's availabilityZone
\* is the zone of the one subnet its subnetId names, and its security group
\* list is exactly the id of the Glue security group.
C21_AsClaimed ==
  outcome = "materialized" =>
    \A c \in Connections :
      /\ Cardinality(ConnectionSubnets(c)) = 1
      /\ \A s \in ConnectionSubnets(c) :
           ResolvedZone(Val(c, "physicalConnectionRequirements.availabilityZone"))
             = ZoneOf(NodeNamed(s))
      /\ Val(c, "physicalConnectionRequirements.securityGroupIdList")
           = Ref(GlueGroup(variant), "id")

\* the version node of the master-user secret, and the payload key that holds
\* the database name, per stack
MasterSecretVersion(v) ==
  IF v = "infra" THEN "rds-master-secret-secret-version" ELSE "rds-master-user-secret-version"
DbNameKey(v) == IF v = "infra" THEN "secretString.dbname" ELSE "secretString.dbName"
Clusters == OfKind("RdsCluster")

\* C22: whenever the master-user secret's version node is declared, there is
\* exactly one cluster; the payload's username is the cluster's
\* masterUsername; its password is the cluster's masterPassword, the result of
\* one declared Password node; and its host, database name and cluster
\* identifier are the endpoint, databaseName and clusterIdentifier attributes
\* of that cluster.
C22_MasterSecretMatchesCluster ==
  \A s \in {x \in SecretVersions : x.name = MasterSecretVersion(variant)} :
    /\ Cardinality(Clusters) = 1
    /\ \A c \in Clusters :
         /\ Val(s, "secretString.username") = Val(c, "masterUsername")
         /\ Len(Val(s, "secretString.username").lits) = 1
         /\ Val(s, "secretString.username").refs = <<>>
         /\ PayloadPassword(s) = Val(c, "masterPassword")
         /\ \E p \in Passwords : PayloadPassword(s) = Ref(p.name, "result")
         /\ Val(s, "secretString.host") = Ref(c.name, "endpoint")
         /\ Val(s, DbNameKey(variant)) = Ref(c.name, "databaseName")
         /\ Val(s, "secretString.dbClusterIdentifier") = Ref(c.name, "clusterIdentifier")

C22_Witness ==
  /\ variant = "s3"
  /\ \E s \in SecretVersions :
       /\ s.name = MasterSecretVersion(variant)
       /\ Val(s, "secretString.username") = Lit("gluedbadmin")
  /\ \E c \in Clusters : Val(c, "masterUsername") = Lit("gluedbadmin")

\* what the Glue job's role may read: job -> roleArn -> managedPolicyArns ->
\* policy document -> the resources of its GetSecretValue statements
Jobs == OfKind("GlueJob")
GrantedBy(d) ==
  UNION {RefNodes(Val(d, "statement." \o i \o ".resources")) :
           i \in {k \in {"0", "1"} :
                    /\ Has(d, "statement." \o k \o ".actions")
                    /\ "secretsmanager:GetSecretValue"
                         \in Range(Val(d, "statement." \o k \o ".actions").lits)}}
PolicyDocumentsOf(j) ==
  {d \in OfKind("DataAwsIamPolicyDocument") :
     \E role \in OfKind("IamRole") : \E pol \in OfKind("IamPolicy") :
       /\ role.name \in RefNodes(Val(j, "roleArn"))
       /\ pol.name \in RefNodes(Val(role, "managedPolicyArns"))
       /\ d.name \in RefNodes(Val(pol, "policy"))}
JobGrants(j) == UNION {GrantedBy(d) : d \in PolicyDocumentsOf(j)}
ConnectionsOf(j) == {c \in Connections : c.name \in RefNodes(Val(j, "connections"))}

\* C23: when the run of the stack of src/infra/main.ts has ended, there is one
\* Glue job; its role is granted secretsmanager:GetSecretValue on exactly one
\* secret; that secret is the storage node named by the SECRET_ID of the job's
\* connection and by the job's --db_secret argument; and it is neither the
\* master-user secret nor the ORM secret.
C23_AsClaimed ==
  (variant = "infra" /\ outcome # "composing") =>
    /\ Cardinality(Jobs) = 1
    /\ \A j \in Jobs :
         /\ Cardinality(JobGrants(j)) = 1
         /\ JobGrants(j) \subseteq {s.name : s \in Secrets}
         /\ ConnectionsOf(j) # {}
         /\ \A c \in ConnectionsOf(j) :
              RefNodes(Val(c, "connectionProperties.SECRET_ID")) = JobGrants(j)
         /\ Has(j, "defaultArguments.--db_secret")
         /\ RefNodes(Val(j, "defaultArguments.--db_secret")) = JobGrants(j)
         /\ JobGrants(j) \cap {infra_createRDSSecret_ret("rds-master-secret"),
                               infra_setupSecrets_ret.ormSecret} = {}

====
